---- MODULE Spec2Model ----
(***************************************************************************)
(* Vaulted: the play pipeline of the Title page (handlePlay, tryPlaySource, *)
(* playSource), the Real-Debrid resolver of services/sources.ts            *)
(* (addToDebrid, waitForTorrentReady, waitForTorrentLinks, deleteTorrent)  *)
(* and its SourceAggregator (registerProvider, fetchAllSources).           *)
(*                                                                         *)
(* JavaScript runs every handler to its next await of a network response   *)
(* or timer.  A run whose pc is "try" or "resume" has a continuation in    *)
(* the microtask queue; user events and network responses are delivered    *)
(* only when no such continuation is pending (Idle).                       *)
(***************************************************************************)
EXTENDS Integers, Sequences, FiniteSets, TLC

\* ------------------------------------------------------------------ bounds
MaxSources == 3     \* longest list the providers return for one title
MaxRuns == 3        \* tryPlaySource chains started in one SpecUI behaviour
MaxProviders == 2   \* registerProvider calls in one SpecFetch behaviour
MaxRank == 3        \* longest list getSortedSources is given in SpecRank
MaxMagnets == 120   \* most magnets of one title in SpecCache
MaxTitle == 3       \* most pieces of a title parseQuality is given in SpecQuality
MaxRequests == 2    \* requests the backend is sent in one SpecProxy behaviour
MaxAttempts == 5     \* tryPlaySource calls followed in one SpecDup behaviour

\* ------------------------------------------------------- program constants
ReadyMaxAttempts == 10
LinksMaxAttempts == 30

ArchiveExt == {"iso", "rar", "zip", "7z", "tar", "gz"}
InlineExt == {"mp4", "mkv", "webm", "m3u8", "avi", "mov"}
playableExtensions == {"mp4", "mkv", "avi", "mov", "wmv", "webm", "m4v", "ts", "m2ts"}
RdHosts == {"real-debrid.com", "download.real-debrid.com", "rdb.so"}
ErrorStatuses == {"magnet_error", "error", "virus", "dead"}
Statuses == {"waiting_files_selection", "downloaded", "queued", "downloading"}
                \cup ErrorStatuses

MsgNoSources == "No sources found"
MsgAllFailed == "All sources failed. Try selecting manually."

\* --------------------------------------------------------------- URL model
\* A URL is the part of the string the code looks at: its scheme
\* (startsWith('magnet:')), its host (includes('real-debrid.com')), the
\* extension it ends in (/\.(iso|...)$/i) and, for a magnet, its info-hash.
Url(scheme, host, ext, hash) ==
    [scheme |-> scheme, host |-> host, ext |-> ext, hash |-> hash, proxied |-> FALSE]

NoUrl == Url("", "", "", "")
MagnetUrl == Url("magnet", "", "", "h1")
Mp4Url == Url("https", "cdn.example", "mp4", "")
IsoUrl == Url("https", "cdn.example", "iso", "")
RdUrl == Url("https", "real-debrid.com", "mp4", "")
EmbedUrl == Url("https", "vidsrc.to", "", "")

\* the values unrestrict/link can answer in `download` (NoUrl: field absent)
RdMkv == Url("https", "download.real-debrid.com", "mkv", "")
RdRar == Url("https", "download.real-debrid.com", "rar", "")
RdbMkv == Url("https", "rdb.so", "mkv", "")
CdnBin == Url("https", "cdn.example", "", "")
Downloads == {NoUrl, RdMkv, RdRar, RdbMkv, CdnBin}

IsMagnet(u) == u.scheme = "magnet"
IsArchive(u) == u.ext \in ArchiveExt
IsRdHost(u) == u.host \in RdHosts
IsInline(u) == u.ext \in InlineExt

getProxiedUrl(u) ==
    IF u.host \in {"real-debrid.com", "download.real-debrid.com"}
    THEN [u EXCEPT !.proxied = TRUE]
    ELSE u

\* ------------------------------------------------------------- candidates
QUALITY_RANK(q) ==
    CASE q = "4K" -> 4
      [] q = "1080p" -> 3
      [] q = "720p" -> 2
      [] q = "480p" -> 1
      [] OTHER -> 0

StreamSource(id, url, provider, quality) ==
    [id |-> id, url |-> url, provider |-> provider, quality |-> quality,
     seeds |-> 0, cached |-> FALSE]

NoSource == StreamSource(0, NoUrl, "", "Unknown")

\* what a provider offers before the page numbers it
Offers ==
    { [url |-> u, provider |-> "Torrentio", quality |-> "1080p"] :
        u \in {MagnetUrl, Mp4Url, IsoUrl, RdUrl} }
    \cup
    { [url |-> IsoUrl, provider |-> "Torrentio", quality |-> "720p"],
      [url |-> EmbedUrl, provider |-> "VidSrc", quality |-> "1080p"] }

SeqsUpTo(S, n) == UNION { [1..k -> S] : k \in 0..n }

\* the lists fetchAllSources can deliver: ids are unique, as the ids of the
\* registered providers are (torrentio-<idx>, vidsrc-to, vidsrc-me, ...)
Number(offers) ==
    [k \in 1..Len(offers) |->
        StreamSource(k, offers[k].url, offers[k].provider, offers[k].quality)]

AllCatalogs == { Number(o) : o \in SeqsUpTo(Offers, MaxSources) }

\* the plain scenario: Torrentio alone answers, with one magnet or none
MagnetCatalogs ==
    { Number(o) : o \in SeqsUpTo({ f \in Offers : IsMagnet(f.url) }, 1) }

\* The lists of a registry in which an id is registered twice, or of a
\* provider that numbers its sources itself: sources of one list can have
\* the same id.  The sources are ones tryPlaySource decides on by itself.
DupOffers == { f \in Offers : f.url \in {IsoUrl, Mp4Url} /\ f.quality = "1080p" }

DupCatalogs ==
    UNION { { [k \in 1..n |-> StreamSource(ids[k], o[k].url, o[k].provider, o[k].quality)] :
                o \in [1..n -> DupOffers], ids \in [1..n -> 1..n] } : n \in 0..MaxSources }

Catalogs(sc) ==
    CASE sc \in {"plain", "resolver"} -> MagnetCatalogs
      [] sc = "duplicates" -> DupCatalogs
      [] OTHER -> AllCatalogs

\* ------------------------------------------------------- getSortedSources
\* seeds?: number; NoSeeds stands for a source without the field
NoSeeds == -1

\* (seeds || 0)
OrZero(seeds) == IF seeds = NoSeeds THEN 0 ELSE seeds

\* a bug to tell C27 by: quality is compared before the cached flag
CompareQualityFirst(a, b) ==
    IF QUALITY_RANK(b.quality) - QUALITY_RANK(a.quality) # 0
    THEN QUALITY_RANK(b.quality) - QUALITY_RANK(a.quality)
    ELSE IF a.cached /\ ~b.cached THEN -1
    ELSE IF ~a.cached /\ b.cached THEN 1
    ELSE OrZero(b.seeds) - OrZero(a.seeds)

\* the comparator of getSortedSources: negative when a sorts before b
Compare(a, b) ==
    IF a.cached /\ ~b.cached THEN -1
    ELSE IF ~a.cached /\ b.cached THEN 1
    ELSE IF QUALITY_RANK(b.quality) - QUALITY_RANK(a.quality) # 0
         THEN QUALITY_RANK(b.quality) - QUALITY_RANK(a.quality)
    ELSE OrZero(b.seeds) - OrZero(a.seeds)

\* a bug to tell C28 by: a sort that puts x before the elements it ties with
InsertSortedBeforeTies(s, x) ==
    LET before == { k \in 1..Len(s) : Compare(x, s[k]) <= 0 }
        pos == IF before = {} THEN Len(s) + 1
               ELSE CHOOSE k \in before : \A j \in before : k <= j
    IN SubSeq(s, 1, pos - 1) \o <<x>> \o SubSeq(s, pos, Len(s))

\* Array.prototype.sort is stable: x goes after every element it does not
\* strictly precede
InsertSorted(s, x) ==
    LET before == { k \in 1..Len(s) : Compare(x, s[k]) < 0 }
        pos == IF before = {} THEN Len(s) + 1
               ELSE CHOOSE k \in before : \A j \in before : k <= j
    IN SubSeq(s, 1, pos - 1) \o <<x>> \o SubSeq(s, pos, Len(s))

RECURSIVE SortPrefix(_, _)
SortPrefix(s, n) ==
    IF n = 0 THEN <<>> ELSE InsertSorted(SortPrefix(s, n - 1), s[n])

getSortedSources(s) == SortPrefix(s, Len(s))

\* handlePlay, lines 138-152: mark the magnets with the precheck's answer
MarkCached(fetched, cacheStatus) ==
    [k \in 1..Len(fetched) |->
        IF IsMagnet(fetched[k].url) /\ fetched[k].url.hash \in DOMAIN cacheStatus
        THEN [fetched[k] EXCEPT !.cached = cacheStatus[fetched[k].url.hash]]
        ELSE fetched[k]]

\* the answers checkDebridCache can give for the hashes of a list
CacheAnswers(fetched) ==
    LET hs == { fetched[k].url.hash : k \in { j \in 1..Len(fetched) : IsMagnet(fetched[j].url) } }
    IN UNION { [d -> BOOLEAN] : d \in SUBSET hs }

\* ------------------------------------------------------------------ state
VARIABLES
    debridKey,         \* sourceAggregator.getDebridKey() is non-null
    scenario,          \* what the providers and the service can answer: "any",
                       \* "plain", "resolver" (one magnet, any answer of the service)
                       \* or "duplicates" (sources of one list can share an id)
    sources,           \* React state of the Title page ...
    sourcesLoading,
    showSourcePicker,
    playingSource,
    playError,
    playerUrl,
    isPlaying,
    opened,            \* URLs handed to window.open, in order
    runs,              \* the async call chains started so far
    rdDeletes          \* per torrent id: DELETE requests the service was sent

\* the SourceAggregator singleton and the fetchAllSources call in flight
VARIABLES
    providers,         \* this.providers
    calls,             \* the provider.fetch promises of the call, in map order
    fanout,            \* the promise fetchAllSources returned
    localStorage       \* the vaulted_provider_<id> items: id -> "true" or "false"

\* the call of checkDebridCache handlePlay makes, and one call of
\* getSortedSources with its argument
VARIABLES
    precheck,
    ranking,
    parsing,           \* one call of parseQuality with its argument
    proxy              \* the backend's /api/proxy/realdebrid routes

aggVars == <<providers, calls, fanout, localStorage>>

libVars == <<precheck, ranking, parsing, proxy>>

pageVars == <<debridKey, scenario, sources, sourcesLoading, showSourcePicker,
              playingSource, playError, playerUrl, isPlaying, opened, runs, rdDeletes>>

vars == <<debridKey, scenario, sources, sourcesLoading, showSourcePicker,
          playingSource, playError, playerUrl, isPlaying, opened, runs, rdDeletes,
          providers, calls, fanout, localStorage, precheck, ranking,
          parsing, proxy>>

\* no fetchAllSources call yet; enabled: the local enabledProviders of the
\* call; order: the calls in the order they settled
NoFanout == [status |-> "idle", enabled |-> <<>>, result |-> <<>>, order |-> <<>>]

\* checkDebridCache has not been called; getSortedSources has not been called
NoPrecheck == [pc |-> "idle", fetched |-> <<>>, hashes |-> <<>>, i |-> 0,
               cached |-> <<>>, requests |-> <<>>, answers |-> <<>>]

NoRanking == [pc |-> "idle", input |-> <<>>, output |-> <<>>]

NoParsing == [pc |-> "idle", title |-> <<>>, quality |-> ""]

\* the backend before any request: upstream holds the requests it sent to
\* api.real-debrid.com, replies what it answered its clients
NoRequest == [method |-> "", path |-> "", id |-> 0, bearer |-> FALSE, apiKey |-> FALSE]

NoProxy == [pc |-> "idle", request |-> NoRequest, upstream |-> <<>>, replies |-> <<>>]

\* the resolver's locals for one addToDebrid call
NoRd == [tid |-> 0, phase |-> 0, i |-> 0, polls |-> 0, log |-> <<>>,
         files |-> <<>>, fileIds |-> "", links |-> <<>>,
         link |-> [id |-> 0, ext |-> ""], download |-> NoUrl,
         result |-> NoUrl, err |-> ""]

NewRun(kind, all, idx, pc) ==
    [kind |-> kind, all |-> all, idx |-> idx, pc |-> pc, attempts |-> <<>>, rd |-> NoRd]

Idle == \A r \in 1..Len(runs) : runs[r].pc \notin {"try", "resume"}

TypeOK ==
    /\ debridKey \in BOOLEAN
    /\ sourcesLoading \in BOOLEAN
    /\ showSourcePicker \in BOOLEAN
    /\ isPlaying \in BOOLEAN
    /\ playError \in {"", MsgNoSources, MsgAllFailed}
    /\ Len(sources) <= MaxSources
    /\ Len(runs) <= MaxRuns

Init ==
    /\ debridKey \in BOOLEAN
    /\ scenario = "any"
    /\ sources = <<>>
    /\ sourcesLoading = FALSE
    /\ showSourcePicker = FALSE
    /\ playingSource = NoSource
    /\ playError = ""
    /\ playerUrl = NoUrl
    /\ isPlaying = FALSE
    /\ opened = <<>>
    /\ runs = <<>>
    /\ rdDeletes = <<>>
    /\ providers = <<>>
    /\ calls = <<>>
    /\ fanout = NoFanout
    /\ localStorage = <<>>
    /\ precheck = NoPrecheck
    /\ ranking = NoRanking
    /\ parsing = NoParsing
    /\ proxy = NoProxy

\* ------------------------------------------------------------- handlePlay
\* lines 121-126: the click on Play (disabled while sourcesLoading, covered
\* by the player while isPlaying), up to the await of fetchAllSources
HandlePlay ==
    /\ Idle
    /\ ~sourcesLoading
    /\ ~isPlaying
    /\ sourcesLoading' = TRUE
    /\ playError' = ""
    /\ sources' = <<>>
    /\ runs' = Append(runs, NewRun("handlePlay", <<>>, 0, "fetch"))
    /\ UNCHANGED <<debridKey, scenario, showSourcePicker, playingSource,
                   playerUrl, isPlaying, opened, rdDeletes>>
    /\ UNCHANGED aggVars
    /\ UNCHANGED libVars

\* lines 130-163: the providers and the precheck have answered
Fetched(r) ==
    /\ Idle
    /\ runs[r].pc = "fetch"
    /\ \E fetched \in Catalogs(scenario) :
       \E cacheStatus \in (IF debridKey THEN CacheAnswers(fetched) ELSE {<<>>}) :
          LET sorted == getSortedSources(MarkCached(fetched, cacheStatus)) IN
          /\ sources' = sorted
          /\ IF Len(sorted) = 0
             THEN /\ playError' = MsgNoSources
                  /\ sourcesLoading' = FALSE
                  /\ runs' = [runs EXCEPT ![r].pc = "done"]
             ELSE /\ runs' = [runs EXCEPT ![r].all = sorted, ![r].idx = 1, ![r].pc = "try"]
                  /\ UNCHANGED <<playError, sourcesLoading>>
    /\ UNCHANGED <<debridKey, scenario, showSourcePicker, playingSource,
                   playerUrl, isPlaying, opened, rdDeletes>>
    /\ UNCHANGED aggVars
    /\ UNCHANGED libVars

\* ---------------------------------------------------------- tryPlaySource
\* allSources.findIndex(s => s.id === id), 1-based; 0 when there is none
FindIndex(all, id) ==
    LET hits == { k \in 1..Len(all) : all[k].id = id }
    IN IF hits = {} THEN 0 ELSE CHOOSE k \in hits : \A j \in hits : k <= j

\* a bug to tell C15 by: the check for non-playable formats is left out
PlayOutcomeUnchecked(streamUrl) ==
    IF IsRdHost(streamUrl) THEN "proxy"
    ELSE IF IsInline(streamUrl) THEN "inline"
    ELSE "external"

\* a bug to tell C16 by: every URL that is not proxied is opened in a new tab
PlayOutcomeOpensAll(streamUrl) ==
    IF IsArchive(streamUrl) THEN "failed"
    ELSE IF IsRdHost(streamUrl) THEN "proxy"
    ELSE "external"

\* a bug to tell C40 by: a URL of no known kind counts as a failed source
PlayOutcomeRejectsOthers(streamUrl) ==
    IF IsArchive(streamUrl) THEN "failed"
    ELSE IF IsRdHost(streamUrl) THEN "proxy"
    ELSE IF IsInline(streamUrl) THEN "inline"
    ELSE "failed"

\* lines 205-226: what tryPlaySource does with a stream URL
PlayOutcome(streamUrl) ==
    IF IsArchive(streamUrl) THEN "failed"
    ELSE IF IsRdHost(streamUrl) THEN "proxy"
    ELSE IF IsInline(streamUrl) THEN "inline"
    ELSE "external"

\* a bug to tell C9 by: the magnet without a key is treated as a failed source
NoDebridOutcomeFails == "failed"

\* lines 198-202: a magnet without a debrid key is opened externally
\* (window.open) and tryPlaySource returns
NoDebridOutcome == "external"

\* a bug to tell C1 by: the catch block skips a candidate
NextIdxSkips(all, source) ==
    LET currentIdx == FindIndex(all, source.id)
    IN IF currentIdx + 1 < Len(all) THEN currentIdx + 2
       ELSE IF currentIdx < Len(all) THEN currentIdx + 1 ELSE 0

\* a bug to tell C8 by: the catch block gives up one candidate early
NextIdxStopsEarly(all, source) ==
    LET currentIdx == FindIndex(all, source.id)
    IN IF currentIdx < Len(all) - 1 THEN currentIdx + 1 ELSE 0

\* lines 231-232: the index the catch block goes on with (0: there is none)
NextIdx(all, source) ==
    LET currentIdx == FindIndex(all, source.id)
    IN IF currentIdx < Len(all) THEN currentIdx + 1 ELSE 0

SetOutcome(attempts, out) ==
    [attempts EXCEPT ![Len(attempts)].outcome = out]

\* the end of one attempt of run r: run is the run's record so far, out the
\* attempt's outcome, err the value playError has before the catch block
EndAttempt(r, run, out, streamUrl, err) ==
    LET source == run.all[run.idx]
        next == NextIdx(run.all, source)
        att == SetOutcome(run.attempts, IF out \in {"proxy", "inline"} THEN "playing" ELSE out)
        ends == out # "failed" \/ next = 0
    IN
    /\ runs' = [runs EXCEPT ![r] =
                  IF ends THEN [run EXCEPT !.attempts = att, !.pc = "done"]
                  ELSE [run EXCEPT !.attempts = att, !.pc = "try", !.idx = next]]
    /\ playError' = IF out = "failed" /\ next = 0 THEN MsgAllFailed ELSE err
    /\ showSourcePicker' = IF out = "failed" /\ next = 0 THEN TRUE ELSE showSourcePicker
    /\ playerUrl' = CASE out = "proxy" -> getProxiedUrl(streamUrl)
                      [] out = "inline" -> streamUrl
                      [] OTHER -> playerUrl
    /\ isPlaying' = IF out \in {"proxy", "inline"} THEN TRUE ELSE isPlaying
    /\ opened' = IF out = "external" THEN Append(opened, streamUrl) ELSE opened
    /\ sourcesLoading' = IF ends /\ run.kind = "handlePlay" THEN FALSE ELSE sourcesLoading

NewAttempt(run) ==
    Append(run.attempts, [idx |-> run.idx, provider |-> run.all[run.idx].provider,
                          outcome |-> "pending", tid |-> 0])

\* lines 182-203: tryPlaySource(allSources[idx], allSources) up to its first await
TryPlaySource(r) ==
    /\ runs[r].pc = "try"
    /\ LET run == [runs[r] EXCEPT !.attempts = NewAttempt(runs[r]), !.rd = NoRd]
           source == run.all[run.idx]
       IN
       /\ playingSource' = source
       /\ IF IsMagnet(source.url)
          THEN IF debridKey
               THEN \* addToDebrid: the addMagnet request is sent
                    /\ runs' = [runs EXCEPT ![r] = [run EXCEPT !.pc = "addMagnet"]]
                    /\ playError' = ""
                    /\ UNCHANGED <<showSourcePicker, playerUrl, isPlaying, opened, sourcesLoading>>
               ELSE EndAttempt(r, run, NoDebridOutcome, source.url, "")
          ELSE EndAttempt(r, run, PlayOutcome(source.url), source.url, "")
    /\ UNCHANGED <<debridKey, scenario, sources, rdDeletes>>
    /\ UNCHANGED aggVars
    /\ UNCHANGED libVars

\* lines 192-226: addToDebrid has returned rd.result (NoUrl: null)
Resume(r) ==
    /\ runs[r].pc = "resume"
    /\ LET run == [runs[r] EXCEPT !.rd = NoRd]
           directLink == runs[r].rd.result
       IN IF directLink # NoUrl
          THEN EndAttempt(r, run, PlayOutcome(directLink), directLink, playError)
          ELSE EndAttempt(r, run, "failed", NoUrl, playError)
    /\ UNCHANGED <<debridKey, scenario, sources, playingSource, rdDeletes>>
    /\ UNCHANGED aggVars
    /\ UNCHANGED libVars

\* ------------------------------------------------ the acceleration service
\* What the service (through the proxy) can answer.  code 0: the fetch itself
\* rejects (network error); any other code: the fetch resolves.
File(id, ext, bytes, selected) == [id |-> id, ext |-> ext, bytes |-> bytes, selected |-> selected]
Link(id, ext) == [id |-> id, ext |-> ext]

FileLists ==
    { <<>>,
      <<File(1, "mp4", 100, 0), File(2, "mkv", 500, 0)>>,
      <<File(1, "rar", 900, 0)>>,
      <<File(1, "rar", 900, 0), File(2, "mp4", 100, 0)>>,
      <<File(1, "mkv", 500, 0), File(2, "mp4", 100, 0)>>,
      <<File(1, "mkv", 700, 1), File(2, "mp4", 100, 0), File(3, "mkv", 100, 0)>> }

LinkLists ==
    { <<>>,
      <<Link(1, "rar")>>,
      <<Link(1, "rar"), Link(2, "iso")>>,
      <<Link(1, "rar"), Link(2, "mkv")>>,
      <<Link(1, "mkv"), Link(2, "mp4")>>,
      <<Link(1, "")>> }

InfoResponses ==
    { [code |-> c, status |-> "", links |-> <<>>, files |-> <<>>] : c \in {0, 400, 500} }
    \cup
    { [code |-> 200, status |-> s, links |-> <<>>, files |-> <<>>] :
        s \in Statuses \ {"waiting_files_selection", "downloaded"} }
    \cup
    { [code |-> 200, status |-> "waiting_files_selection", links |-> <<>>, files |-> f] :
        f \in FileLists }
    \cup
    { [code |-> 200, status |-> "downloaded", links |-> l, files |-> <<>>] : l \in LinkLists }

CallResponses == {"ok", "http_error", "throw"}

\* the plain scenario: the network is up and the service answers an info
\* request with 400, queued, a file selection or a finished download
PlainInfoResponses ==
    { resp \in InfoResponses :
        \/ resp.code = 400
        \/ resp.status = "queued"
        \/ resp.status = "waiting_files_selection" /\ Len(resp.files) = 2
        \/ resp.status = "downloaded" /\ resp.links = <<Link(1, "")>> }

InfoAnswers(sc) == IF sc = "plain" THEN PlainInfoResponses ELSE InfoResponses
CallAnswers(sc) == IF sc = "plain" THEN {"ok"} ELSE CallResponses
DeleteAnswers(sc) == IF sc = "plain" THEN {"ok"} ELSE CallResponses
DownloadAnswers(sc) == IF sc = "plain" THEN {RdMkv} ELSE Downloads

\* The log of a resolver run holds every request it was answered, except
\* the info polls that found the torrent still on its way (queued,
\* downloading, in the links phase also a torrent without links yet):
\* those are counted in rd.polls.
Settled(resp, phase) ==
    \/ resp.code # 200
    \/ resp.status \in ErrorStatuses
    \/ phase = 1 /\ resp.status \in {"waiting_files_selection", "downloaded"}
    \/ phase = 2 /\ resp.status = "downloaded" /\ Len(resp.links) > 0

\* how an info response reads in the log
ResponseClass(resp) ==
    IF resp.code = 0 THEN "throw"
    ELSE IF resp.code = 400 THEN "400"
    ELSE IF resp.code # 200 THEN "http_error"
    ELSE resp.status

Entry(call, phase, resp, arg) == [call |-> call, phase |-> phase, resp |-> resp, arg |-> arg]

\* a bug to tell C3 by: the 400 of the first phase is thrown on without a delete
ReadyBodyForgets400(resp) ==
    IF resp.code = 0 THEN [do |-> "throw", err |-> "fetch failed"]
    ELSE IF resp.code # 200 THEN [do |-> "throw", err |-> "Failed to get torrent info"]
    ELSE IF resp.status = "waiting_files_selection" THEN [do |-> "return", err |-> ""]
    ELSE IF resp.status = "downloaded" THEN [do |-> "return", err |-> ""]
    ELSE IF resp.status \in ErrorStatuses THEN [do |-> "delete", err |-> "Torrent error"]
    ELSE [do |-> "continue", err |-> ""]

\* ---------------------------------------------------- waitForTorrentReady
\* one pass of the loop body on an info response: return the info, delete
\* the torrent and throw, throw, or sleep and go round again
ReadyBody(resp) ==
    IF resp.code = 0 THEN [do |-> "throw", err |-> "fetch failed"]
    ELSE IF resp.code = 400
         THEN [do |-> "delete", err |-> "Torrent not cached on Real-Debrid"]
    ELSE IF resp.code # 200 THEN [do |-> "throw", err |-> "Failed to get torrent info"]
    ELSE IF resp.status = "waiting_files_selection" THEN [do |-> "return", err |-> ""]
    ELSE IF resp.status = "downloaded" THEN [do |-> "return", err |-> ""]
    ELSE IF resp.status \in ErrorStatuses THEN [do |-> "delete", err |-> "Torrent error"]
    ELSE [do |-> "continue", err |-> ""]

\* a bug to tell C5 by: the first phase times out as the second does
ReadyExhaustedThrows == [do |-> "throw", err |-> "Torrent not ready in time"]

\* lines 554-555: the loop ran out
ReadyExhausted == [do |-> "delete", err |-> "Torrent not ready in time"]

\* ---------------------------------------------------- waitForTorrentLinks
\* a bug to tell C6 by: the links phase polls on over a dead torrent
LinksBodyPollsOnError(resp) ==
    IF resp.code = 0 THEN [do |-> "throw", err |-> "fetch failed"]
    ELSE IF resp.code = 400 THEN [do |-> "delete", err |-> "Torrent not available"]
    ELSE IF resp.code # 200 THEN [do |-> "throw", err |-> "Failed to get torrent info"]
    ELSE IF resp.status = "downloaded" /\ Len(resp.links) > 0 THEN [do |-> "return", err |-> ""]
    ELSE [do |-> "continue", err |-> ""]

\* a bug to tell C37 by: the links phase ends on a download without links
LinksBodyReturnsWithoutLinks(resp) ==
    IF resp.code = 0 THEN [do |-> "throw", err |-> "fetch failed"]
    ELSE IF resp.code = 400 THEN [do |-> "delete", err |-> "Torrent not available"]
    ELSE IF resp.code # 200 THEN [do |-> "throw", err |-> "Failed to get torrent info"]
    ELSE IF resp.status = "downloaded" THEN [do |-> "return", err |-> ""]
    ELSE IF resp.status \in ErrorStatuses THEN [do |-> "delete", err |-> "Torrent error"]
    ELSE [do |-> "continue", err |-> ""]

LinksBody(resp) ==
    IF resp.code = 0 THEN [do |-> "throw", err |-> "fetch failed"]
    ELSE IF resp.code = 400 THEN [do |-> "delete", err |-> "Torrent not available"]
    ELSE IF resp.code # 200 THEN [do |-> "throw", err |-> "Failed to get torrent info"]
    ELSE IF resp.status = "downloaded" /\ Len(resp.links) > 0 THEN [do |-> "return", err |-> ""]
    ELSE IF resp.status \in ErrorStatuses THEN [do |-> "delete", err |-> "Torrent error"]
    ELSE [do |-> "continue", err |-> ""]

\* a bug to tell C29 by: the links phase has no ceiling
LinksExhaustedPollsOn == [do |-> "continue", err |-> ""]

\* lines 517-519: the loop ran out
LinksExhausted == [do |-> "throw", err |-> "Torrent download timeout"]

\* ------------------------------------------------------------ addToDebrid
\* lines 596-611: the file ids addToDebrid asks selectFiles for
RECURSIVE Largest(_, _)
Largest(fs, n) ==
    IF n = 1 THEN fs[1]
    ELSE LET a == Largest(fs, n - 1) IN IF a.bytes > fs[n].bytes THEN a ELSE fs[n]

\* a bug to tell C11 by: files the torrent has already selected count too
FileIdsOfAnyVideo(files) ==
    LET IsVideo(f) == f.ext \in playableExtensions
        videoFiles == SelectSeq(files, IsVideo)
    IN IF Len(videoFiles) > 0 THEN ToString(Largest(videoFiles, Len(videoFiles)).id) ELSE "all"

FileIds(files) ==
    LET IsVideo(f) == f.ext \in playableExtensions /\ f.selected = 0
        videoFiles == SelectSeq(files, IsVideo)
    IN IF Len(videoFiles) > 0 THEN ToString(Largest(videoFiles, Len(videoFiles)).id) ELSE "all"

\* a bug to tell C13 by: the links are not filtered
PlayableLinksUnfiltered(links) == links

\* lines 639-641
PlayableLinks(links) ==
    LET NotArchive(l) == l.ext \notin ArchiveExt
    IN SelectSeq(links, NotArchive)

\* addToDebrid returns result (NoUrl: null); err is what it logged.  Its
\* locals end with the call; the log of its requests, the torrent id, the
\* links the service reported and what unrestrict answered stay
Return(r, run, rd, result, err) ==
    runs' = [runs EXCEPT ![r] =
               [run EXCEPT !.pc = "resume",
                           !.rd = [NoRd EXCEPT !.tid = rd.tid, !.log = rd.log,
                                               !.links = rd.links,
                                               !.download = rd.download,
                                               !.result = result, !.err = err]]]

\* the send of an info request: iteration i of the loop of the given phase
Poll(rd, phase, i) ==
    [rd EXCEPT !.phase = phase, !.i = i,
               !.polls = IF phase = rd.phase THEN rd.polls + 1 ELSE 1]

\* lines 568-589: the answer to addMagnet
AddMagnetResponse(r) ==
    /\ Idle
    /\ runs[r].pc = "addMagnet"
    /\ \E resp \in CallAnswers(scenario) :
         LET run == runs[r]
             tid == Len(rdDeletes) + 1
             rd == [run.rd EXCEPT !.log = Append(@, Entry("addMagnet", 0, resp, 0))]
         IN IF resp = "ok"
            THEN /\ rdDeletes' = Append(rdDeletes, 0)
                 /\ runs' = [runs EXCEPT ![r] =
                      [run EXCEPT !.pc = "info",
                                  !.rd = Poll([rd EXCEPT !.tid = tid], 1, 0),
                                  !.attempts[Len(run.attempts)].tid = tid]]
            ELSE /\ Return(r, run, rd, NoUrl,
                           IF resp = "throw" THEN "fetch failed" ELSE "Failed to add magnet")
                 /\ UNCHANGED rdDeletes
    /\ UNCHANGED <<debridKey, scenario, sources, sourcesLoading, showSourcePicker,
                   playingSource, playError, playerUrl, isPlaying, opened>>
    /\ UNCHANGED aggVars
    /\ UNCHANGED libVars

\* a bug to tell C36 by: files are selected whatever the first phase found
NeedsFileSelectionAlways(info) == TRUE

\* line 592: addToDebrid selects files only for a torrent that waits for it
NeedsFileSelection(info) == info.status = "waiting_files_selection"

\* the answer to torrents/info in waitForTorrentReady (phase 1) or
\* waitForTorrentLinks (phase 2), the sleep after it and what addToDebrid
\* sends next
InfoResponse(r) ==
    /\ Idle
    /\ runs[r].pc = "info"
    /\ \E resp \in InfoAnswers(scenario) :
         LET run == runs[r]
             body == IF run.rd.phase = 1 THEN ReadyBody(resp) ELSE LinksBody(resp)
             last == run.rd.i + 1 >=
                       (IF run.rd.phase = 1 THEN ReadyMaxAttempts ELSE LinksMaxAttempts)
             step == IF body.do = "continue" /\ last
                     THEN (IF run.rd.phase = 1 THEN ReadyExhausted ELSE LinksExhausted)
                     ELSE body
             rd == [run.rd EXCEPT
                      !.i = IF body.do = "continue" THEN @ + 1 ELSE @,
                      !.log = IF Settled(resp, run.rd.phase)
                              THEN Append(@, Entry("info", run.rd.phase, ResponseClass(resp), run.rd.tid))
                              ELSE @]
         IN CASE step.do = "continue" ->
                   runs' = [runs EXCEPT ![r].rd = Poll(rd, rd.phase, rd.i)]
              [] step.do = "delete" ->
                   runs' = [runs EXCEPT ![r].pc = "delete",
                                        ![r].rd = [rd EXCEPT !.err = step.err, !.i = 0, !.polls = 0]]
              [] step.do = "throw" ->
                   Return(r, run, rd, NoUrl, step.err)
              [] step.do = "return" /\ run.rd.phase = 1 ->
                   IF NeedsFileSelection(resp)
                   THEN runs' = [runs EXCEPT ![r].pc = "selectFiles",
                                             ![r].rd = [rd EXCEPT !.files = resp.files,
                                                                  !.fileIds = FileIds(resp.files)]]
                   ELSE runs' = [runs EXCEPT ![r].rd = Poll(rd, 2, 0)]
              [] step.do = "return" /\ run.rd.phase = 2 ->
                   LET playableLinks == PlayableLinks(resp.links)
                   IN IF Len(playableLinks) = 0
                      THEN Return(r, run, [rd EXCEPT !.links = resp.links],
                                  NoUrl, "No playable links")
                      ELSE runs' = [runs EXCEPT ![r].pc = "unrestrict",
                                                ![r].rd = [rd EXCEPT !.links = resp.links,
                                                                     !.link = playableLinks[1],
                                                                     !.i = 0, !.polls = 0]]
    /\ UNCHANGED <<debridKey, scenario, sources, sourcesLoading, showSourcePicker,
                   playingSource, playError, playerUrl, isPlaying, opened, rdDeletes>>
    /\ UNCHANGED aggVars
    /\ UNCHANGED libVars

\* a bug to tell C14 by: a rejected DELETE request escapes deleteTorrent
deleteTorrentEscalates(resp) == IF resp = "throw" THEN "fetch failed" ELSE "returns"

\* lines 480-489: deleteTorrent awaits the DELETE request inside try/catch
\* and does not look at the answer: it returns normally whatever happened
deleteTorrent(resp) == "returns"

\* lines 480-489 and the throw that follows every deleteTorrent call: the
\* DELETE request is answered or rejects, either way the error is thrown on
DeleteResponse(r) ==
    /\ Idle
    /\ runs[r].pc = "delete"
    /\ \E resp \in DeleteAnswers(scenario) :
         LET run == runs[r]
             rd == [run.rd EXCEPT !.log = Append(@, Entry("delete", run.rd.phase, resp, run.rd.tid))]
             escaped == deleteTorrent(resp)
         IN /\ rdDeletes' = [rdDeletes EXCEPT ![run.rd.tid] = @ + 1]
            /\ Return(r, run, rd, NoUrl,
                      IF escaped = "returns" THEN run.rd.err ELSE escaped)
    /\ UNCHANGED <<debridKey, scenario, sources, sourcesLoading, showSourcePicker,
                   playingSource, playError, playerUrl, isPlaying, opened>>
    /\ UNCHANGED aggVars
    /\ UNCHANGED libVars

\* lines 613-633: the answer to selectFiles; a non-OK answer is only logged.
\* info.files and fileIds are not read again after the request
SelectFilesResponse(r) ==
    /\ Idle
    /\ runs[r].pc = "selectFiles"
    /\ \E resp \in CallAnswers(scenario) :
         LET run == runs[r]
             rd == [run.rd EXCEPT !.log = Append(@, Entry("selectFiles", 1, resp, run.rd.tid)),
                                  !.files = <<>>, !.fileIds = ""]
         IN IF resp = "throw"
            THEN Return(r, run, rd, NoUrl, "fetch failed")
            ELSE runs' = [runs EXCEPT ![r].pc = "info", ![r].rd = Poll(rd, 2, 0)]
    /\ UNCHANGED <<debridKey, scenario, sources, sourcesLoading, showSourcePicker,
                   playingSource, playError, playerUrl, isPlaying, opened, rdDeletes>>
    /\ UNCHANGED aggVars
    /\ UNCHANGED libVars

\* a bug to tell C12 by: the final check of the download URL is left out
UnrestrictedUnchecked(resp, download) ==
    IF resp = "throw" THEN [result |-> NoUrl, err |-> "fetch failed"]
    ELSE IF resp = "http_error" THEN [result |-> NoUrl, err |-> "Failed to unrestrict link"]
    ELSE [result |-> download, err |-> ""]

\* lines 658-673: what addToDebrid returns on the answer to unrestrict/link
Unrestricted(resp, download) ==
    IF resp = "throw" THEN [result |-> NoUrl, err |-> "fetch failed"]
    ELSE IF resp = "http_error" THEN [result |-> NoUrl, err |-> "Failed to unrestrict link"]
    ELSE IF IsArchive(download) THEN [result |-> NoUrl, err |-> "Non-playable format"]
    ELSE [result |-> download, err |-> ""]

\* lines 649-673: the answer to unrestrict/link
UnrestrictResponse(r) ==
    /\ Idle
    /\ runs[r].pc = "unrestrict"
    /\ \E resp \in CallAnswers(scenario), download \in DownloadAnswers(scenario) :
         LET run == runs[r]
             rd == [run.rd EXCEPT !.log = Append(@, Entry("unrestrict", 2, resp, run.rd.link)),
                                  !.download = download]
             out == Unrestricted(resp, download)
         IN /\ resp # "ok" => download = NoUrl
            /\ Return(r, run, rd, out.result, out.err)
    /\ UNCHANGED <<debridKey, scenario, sources, sourcesLoading, showSourcePicker,
                   playingSource, playError, playerUrl, isPlaying, opened, rdDeletes>>
    /\ UNCHANGED aggVars
    /\ UNCHANGED libVars

\* ---------------------------------------------------------- specifications
\* one play request: the Play button is pressed once
FirstPlay == runs = <<>> /\ HandlePlay

Next ==
    \/ FirstPlay
    \/ \E r \in 1..Len(runs) : Fetched(r)
    \/ \E r \in 1..Len(runs) : TryPlaySource(r)
    \/ \E r \in 1..Len(runs) : Resume(r)
    \/ \E r \in 1..Len(runs) : AddMagnetResponse(r)
    \/ \E r \in 1..Len(runs) : InfoResponse(r)
    \/ \E r \in 1..Len(runs) : DeleteResponse(r)
    \/ \E r \in 1..Len(runs) : SelectFilesResponse(r)
    \/ \E r \in 1..Len(runs) : UnrestrictResponse(r)

Spec == Init /\ [][Next]_vars

\* ------------------------------------------------------- the user's actions
\* lines 465-474: the Sources button, shown once sources are loaded
OpenSourcePicker ==
    /\ Idle
    /\ ~isPlaying
    /\ ~showSourcePicker
    /\ Len(sources) > 0
    /\ showSourcePicker' = TRUE
    /\ UNCHANGED <<debridKey, scenario, sources, sourcesLoading, playingSource,
                   playError, playerUrl, isPlaying, opened, runs, rdDeletes>>
    /\ UNCHANGED aggVars
    /\ UNCHANGED libVars

\* lines 611-616: the X of the picker
CloseSourcePicker ==
    /\ Idle
    /\ ~isPlaying
    /\ showSourcePicker
    /\ showSourcePicker' = FALSE
    /\ UNCHANGED <<debridKey, scenario, sources, sourcesLoading, playingSource,
                   playError, playerUrl, isPlaying, opened, runs, rdDeletes>>
    /\ UNCHANGED aggVars
    /\ UNCHANGED libVars

\* lines 243-246 and 619-633: a click on an entry of the picker, which lists
\* the sources only while sourcesLoading is false
playSource(k) ==
    /\ Idle
    /\ ~isPlaying
    /\ showSourcePicker
    /\ ~sourcesLoading
    /\ k \in 1..Len(sources)
    /\ Len(runs) < MaxRuns
    /\ showSourcePicker' = FALSE
    /\ runs' = Append(runs, NewRun("playSource", sources, k, "try"))
    /\ UNCHANGED <<debridKey, scenario, sources, sourcesLoading, playingSource,
                   playError, playerUrl, isPlaying, opened, rdDeletes>>
    /\ UNCHANGED aggVars
    /\ UNCHANGED libVars

\* lines 267-271
closePlayer ==
    /\ Idle
    /\ isPlaying
    /\ isPlaying' = FALSE
    /\ playerUrl' = NoUrl
    /\ playingSource' = NoSource
    /\ UNCHANGED <<debridKey, scenario, sources, sourcesLoading, showSourcePicker,
                   playError, opened, runs, rdDeletes>>
    /\ UNCHANGED aggVars
    /\ UNCHANGED libVars

\* one resolver run with a service whose every call returns: each request
\* in flight is answered (fetch settles, the sleep's timer fires)
InitLive ==
    /\ debridKey = TRUE
    /\ scenario = "resolver"
    /\ sources = <<>>
    /\ sourcesLoading = FALSE
    /\ showSourcePicker = FALSE
    /\ playingSource = NoSource
    /\ playError = ""
    /\ playerUrl = NoUrl
    /\ isPlaying = FALSE
    /\ opened = <<>>
    /\ runs = <<>>
    /\ rdDeletes = <<>>
    /\ providers = <<>>
    /\ calls = <<>>
    /\ fanout = NoFanout
    /\ localStorage = <<>>
    /\ precheck = NoPrecheck
    /\ ranking = NoRanking
    /\ parsing = NoParsing
    /\ proxy = NoProxy

Responses ==
    \E r \in 1..Len(runs) :
        \/ AddMagnetResponse(r)
        \/ InfoResponse(r)
        \/ DeleteResponse(r)
        \/ SelectFilesResponse(r)
        \/ UnrestrictResponse(r)

SpecLive == InitLive /\ [][Next]_vars /\ WF_vars(Responses)

\* one handlePlay, no credential, ids that can repeat; the chain of
\* tryPlaySource calls is followed for MaxAttempts calls
InitDup ==
    /\ debridKey = FALSE
    /\ scenario = "duplicates"
    /\ sources = <<>>
    /\ sourcesLoading = FALSE
    /\ showSourcePicker = FALSE
    /\ playingSource = NoSource
    /\ playError = ""
    /\ playerUrl = NoUrl
    /\ isPlaying = FALSE
    /\ opened = <<>>
    /\ runs = <<>>
    /\ rdDeletes = <<>>
    /\ providers = <<>>
    /\ calls = <<>>
    /\ fanout = NoFanout
    /\ localStorage = <<>>
    /\ precheck = NoPrecheck
    /\ ranking = NoRanking
    /\ parsing = NoParsing
    /\ proxy = NoProxy

TryNext(r) == Len(runs[r].attempts) < MaxAttempts /\ TryPlaySource(r)

NextDup ==
    \/ FirstPlay
    \/ \E r \in 1..Len(runs) : Fetched(r)
    \/ \E r \in 1..Len(runs) : TryNext(r)

SpecDup == InitDup /\ [][NextDup]_vars

\* the page with the user at it: Play can be pressed again, the picker
\* opened and closed, an entry chosen, the player closed
InitUI ==
    /\ debridKey = TRUE
    /\ scenario = "plain"
    /\ sources = <<>>
    /\ sourcesLoading = FALSE
    /\ showSourcePicker = FALSE
    /\ playingSource = NoSource
    /\ playError = ""
    /\ playerUrl = NoUrl
    /\ isPlaying = FALSE
    /\ opened = <<>>
    /\ runs = <<>>
    /\ rdDeletes = <<>>
    /\ providers = <<>>
    /\ calls = <<>>
    /\ fanout = NoFanout
    /\ localStorage = <<>>
    /\ precheck = NoPrecheck
    /\ ranking = NoRanking
    /\ parsing = NoParsing
    /\ proxy = NoProxy

PlayAgain == Len(runs) < MaxRuns /\ HandlePlay

NextUI ==
    \/ PlayAgain
    \/ OpenSourcePicker
    \/ CloseSourcePicker
    \/ \E k \in 1..MaxSources : playSource(k)
    \/ closePlayer
    \/ \E r \in 1..Len(runs) : Fetched(r)
    \/ \E r \in 1..Len(runs) : TryPlaySource(r)
    \/ \E r \in 1..Len(runs) : Resume(r)
    \/ \E r \in 1..Len(runs) : AddMagnetResponse(r)
    \/ \E r \in 1..Len(runs) : InfoResponse(r)
    \/ \E r \in 1..Len(runs) : DeleteResponse(r)
    \/ \E r \in 1..Len(runs) : SelectFilesResponse(r)
    \/ \E r \in 1..Len(runs) : UnrestrictResponse(r)

SpecUI == InitUI /\ [][NextUI]_vars

\* -------------------------------------------------------- SourceAggregator
Provider(id, priority, enabled) == [id |-> id, priority |-> priority, enabled |-> enabled]

\* The providers registerProvider can be given: the ones sources.ts
\* registers itself (torrentio with priority 1, vidsrc with priority 2;
\* superembed is of vidsrc's kind) and a provider of any other module,
\* whose fetch is any function of the SourceProvider type.
Registrable ==
    { Provider("torrentio", 1, e) : e \in BOOLEAN }
    \cup { Provider("vidsrc", 2, e) : e \in BOOLEAN }
    \cup { Provider("custom", pr, e) : pr \in 1..3, e \in BOOLEAN }

\* providers.sort((a, b) => a.priority - b.priority), a stable sort: x goes
\* after every element whose priority is not greater than its own
InsertByPriority(s, x) ==
    LET after == { k \in 1..Len(s) : s[k].priority > x.priority }
        pos == IF after = {} THEN Len(s) + 1
               ELSE CHOOSE k \in after : \A j \in after : k <= j
    IN SubSeq(s, 1, pos - 1) \o <<x>> \o SubSeq(s, pos, Len(s))

RECURSIVE SortByPriority(_, _)
SortByPriority(s, n) ==
    IF n = 0 THEN <<>> ELSE InsertByPriority(SortByPriority(s, n - 1), s[n])

\* lines 73-76; the registrations of sources.ts run when the module loads,
\* before any page can call fetchAllSources
registerProvider(provider) ==
    /\ fanout.status = "idle"
    /\ Len(providers) < MaxProviders
    /\ providers' = SortByPriority(Append(providers, provider), Len(providers) + 1)
    /\ UNCHANGED <<calls, fanout, localStorage>>
    /\ UNCHANGED pageVars
    /\ UNCHANGED libVars

\* the ids setProviderEnabled can be called with: "unknown" is never registered
ProviderIds == { q.id : q \in Registrable } \cup {"unknown"}

\* a bug to tell C30 by: the item is written whether or not the id is known
setProviderEnabledUnchecked(providerId, enabled) ==
    /\ localStorage' = [id \in DOMAIN localStorage \cup {providerId} |->
                           IF id = providerId
                           THEN (IF enabled THEN "true" ELSE "false")
                           ELSE localStorage[id]]
    /\ UNCHANGED <<providers, calls, fanout>>
    /\ UNCHANGED pageVars
    /\ UNCHANGED libVars

\* lines 89-96: find the first provider with the id; when there is one, set
\* its flag and write the item vaulted_provider_<id>
setProviderEnabled(providerId, enabled) ==
    /\ LET found == { k \in 1..Len(providers) : providers[k].id = providerId } IN
       IF found = {}
       THEN UNCHANGED <<providers, localStorage>>
       ELSE LET first == CHOOSE k \in found : \A j \in found : k <= j IN
            /\ providers' = [providers EXCEPT ![first].enabled = enabled]
            /\ localStorage' = [id \in DOMAIN localStorage \cup {providerId} |->
                                   IF id = providerId
                                   THEN (IF enabled THEN "true" ELSE "false")
                                   ELSE localStorage[id]]
    /\ UNCHANGED <<calls, fanout>>
    /\ UNCHANGED pageVars
    /\ UNCHANGED libVars

\* ---------------------------------------------------------- the providers
Stream(url, infoHash) == [url |-> url, infoHash |-> infoHash]

\* what the Torrentio addon can answer: no answer or a non-OK one, or
\* data.streams with streams that carry a url, an infoHash or neither
TorrentioAnswers ==
    { [ok |-> FALSE, streams |-> <<>>],
      [ok |-> TRUE, streams |-> <<>>],
      [ok |-> TRUE, streams |-> <<Stream(NoUrl, ""), Stream(NoUrl, "h1")>>],
      [ok |-> TRUE, streams |-> <<Stream(Mp4Url, "h1")>>] }

\* lines 242-279: map every stream to a source, keep the sources with a url;
\* an error on the way is caught and answered with []
fetchTorrentio(answer) ==
    LET streams == answer.streams
        streamUrl(k) ==
            IF streams[k].url # NoUrl THEN streams[k].url
            ELSE IF streams[k].infoHash # "" THEN Url("magnet", "", "", streams[k].infoHash)
            ELSE NoUrl
        mapped == [k \in 1..Len(streams) |->
                     StreamSource("torrentio-" \o ToString(k - 1), streamUrl(k),
                                  "Torrentio", "Unknown")]
        HasUrl(src) == src.url # NoUrl
    IN IF answer.ok THEN SelectSeq(mapped, HasUrl) ELSE <<>>

\* lines 305-362
fetchVidSrc ==
    << StreamSource("vidsrc-to", EmbedUrl, "VidSrc", "1080p"),
       StreamSource("vidsrc-me", Url("https", "vidsrc.me", "", ""), "VidSrc", "1080p"),
       StreamSource("2embed", Url("https", "www.2embed.cc", "", ""), "2Embed", "1080p") >>

\* the lists the fetch of another module's provider can resolve to
CustomLists ==
    { <<>>,
      <<StreamSource("custom-1", Mp4Url, "Custom", "1080p")>>,
      <<StreamSource("custom-1", NoUrl, "Custom", "1080p"),
        StreamSource("custom-2", MagnetUrl, "Custom", "720p")>> }

\* how the promise of provider.fetch can settle
Outcomes(id) ==
    CASE id = "torrentio" ->
           { [status |-> "fulfilled", value |-> fetchTorrentio(a)] : a \in TorrentioAnswers }
      [] id = "vidsrc" -> { [status |-> "fulfilled", value |-> fetchVidSrc] }
      [] OTHER ->
           { [status |-> "rejected", value |-> <<>>] }
           \cup { [status |-> "fulfilled", value |-> l] : l \in CustomLists }

\* provider.fetch can throw before it returns a promise: the providers of
\* sources.ts are async functions, which never do; a plain function can
CanThrow(id) == id \notin {"torrentio", "vidsrc"}

\* -------------------------------------------------------- fetchAllSources
\* lines 115-125: filter the enabled providers and call fetch on each, in
\* order.  n = 0: every call returns a promise and fetchAllSources awaits
\* them; otherwise the call on the n-th enabled provider throws inside the
\* map callback: the calls before it stay pending, the ones after it are
\* never made, and the promise of fetchAllSources rejects.
fetchAllSources ==
    /\ fanout.status = "idle"
    /\ LET IsEnabled(q) == q.enabled
           enabledProviders == SelectSeq(providers, IsEnabled)
       IN \E n \in 0..Len(enabledProviders) :
            /\ n > 0 => CanThrow(enabledProviders[n].id)
            /\ calls' = [k \in 1..(IF n = 0 THEN Len(enabledProviders) ELSE n - 1) |->
                           [provider |-> enabledProviders[k], status |-> "pending",
                            value |-> <<>>]]
            /\ fanout' = [fanout EXCEPT !.status = IF n = 0 THEN "waiting" ELSE "rejected",
                                        !.enabled = enabledProviders]
    /\ UNCHANGED <<providers, localStorage>>
    /\ UNCHANGED pageVars
    /\ UNCHANGED libVars

\* the promise of the k-th provider.fetch call settles
Settle(k) ==
    /\ k \in 1..Len(calls)
    /\ calls[k].status = "pending"
    /\ \E out \in Outcomes(calls[k].provider.id) :
         calls' = [calls EXCEPT ![k].status = out.status, ![k].value = out.value]
    /\ fanout' = [fanout EXCEPT !.order = Append(@, k)]
    /\ UNCHANGED <<providers, localStorage>>
    /\ UNCHANGED pageVars
    /\ UNCHANGED libVars

\* lines 119-123: the promise allSettled is given, provider.fetch(...).catch(
\* err => []): a rejection becomes the value []
Wrapped(call) ==
    [status |-> IF call.status = "pending" THEN "pending" ELSE "fulfilled",
     value |-> IF call.status = "fulfilled" THEN call.value ELSE <<>>]

\* a bug to tell C19 by: a race, the first settled promise ends the wait
AnySettled(cs) ==
    Len(cs) = 0 \/ \E k \in 1..Len(cs) : Wrapped(cs[k]).status # "pending"

\* line 117: Promise.allSettled resolves when every promise has settled
AllSettled(cs) == \A k \in 1..Len(cs) : Wrapped(cs[k]).status # "pending"

RECURSIVE Flatten(_, _)
Flatten(ss, n) == IF n = 0 THEN <<>> ELSE Flatten(ss, n - 1) \o ss[n]

\* a bug to tell C18 by: the values are pushed in the order the calls settled
MergedAsSettled(cs, order) ==
    Flatten([j \in 1..Len(order) |->
                IF Wrapped(cs[order[j]]).status = "fulfilled"
                THEN Wrapped(cs[order[j]]).value ELSE <<>>], Len(order))

\* a bug to tell C31 by: the enabled flag is read again when the results
\* are merged
MergedOfEnabledNow(cs, order) ==
    Flatten([k \in 1..Len(cs) |->
                IF /\ Wrapped(cs[k]).status = "fulfilled"
                   /\ \E q \in 1..Len(providers) :
                         providers[q].id = cs[k].provider.id /\ providers[q].enabled
                THEN Wrapped(cs[k]).value ELSE <<>>],
            Len(cs))

\* lines 127-132: push the values of the fulfilled results, in the order of
\* the array allSettled was given
Merged(cs, order) ==
    Flatten([k \in 1..Len(cs) |->
                IF Wrapped(cs[k]).status = "fulfilled" THEN Wrapped(cs[k]).value ELSE <<>>],
            Len(cs))

\* lines 117-134: allSettled has resolved; fetchAllSources returns allSources
Join ==
    /\ fanout.status = "waiting"
    /\ AllSettled(calls)
    /\ fanout' = [fanout EXCEPT !.status = "fulfilled",
                                !.result = Merged(calls, fanout.order)]
    /\ UNCHANGED <<providers, calls, localStorage>>
    /\ UNCHANGED pageVars
    /\ UNCHANGED libVars

\* the aggregator alone: providers are registered, then one fetchAllSources
\* call is made and its provider calls settle in any order
InitFetch == Init /\ ~debridKey

NextFetch ==
    \/ \E provider \in Registrable : registerProvider(provider)
    \/ \E id \in ProviderIds, e \in BOOLEAN : setProviderEnabled(id, e)
    \/ fetchAllSources
    \/ \E k \in 1..MaxProviders : Settle(k)
    \/ Join

SpecFetch == InitFetch /\ [][NextFetch]_vars

\* ----------------------------------------------- getSortedSources, alone
\* the sources getSortedSources can be given: any cached flag, any quality
\* label, seeds missing or present
RankQualities == {"4K", "1080p", "720p", "480p", "Unknown"}

RankSeeds == {NoSeeds, 0, 5, 200}

RankOffers ==
    { [quality |-> q, seeds |-> n, cached |-> c] :
        q \in RankQualities, n \in RankSeeds, c \in BOOLEAN }

\* the id of a source is its place in the argument
RankInput(offers) ==
    [k \in 1..Len(offers) |->
        [StreamSource(k, MagnetUrl, "Torrentio", offers[k].quality)
            EXCEPT !.seeds = offers[k].seeds, !.cached = offers[k].cached]]

\* one more argument, with a seed count of its own: 720p uncached with 50
\* seeds, 1080p cached with 5 seeds, 4K uncached with 200 seeds
RankExample ==
    RankInput(<< [quality |-> "720p", seeds |-> 50, cached |-> FALSE],
                 [quality |-> "1080p", seeds |-> 5, cached |-> TRUE],
                 [quality |-> "4K", seeds |-> 200, cached |-> FALSE] >>)

InitRank ==
    /\ debridKey = TRUE
    /\ scenario = "any"
    /\ sources = <<>>
    /\ sourcesLoading = FALSE
    /\ showSourcePicker = FALSE
    /\ playingSource = NoSource
    /\ playError = ""
    /\ playerUrl = NoUrl
    /\ isPlaying = FALSE
    /\ opened = <<>>
    /\ runs = <<>>
    /\ rdDeletes = <<>>
    /\ providers = <<>>
    /\ calls = <<>>
    /\ fanout = NoFanout
    /\ localStorage = <<>>
    /\ precheck = NoPrecheck
    /\ parsing = NoParsing
    /\ proxy = NoProxy
    /\ \/ \E n \in 0..MaxRank : \E o \in [1..n -> RankOffers] :
             ranking = [pc |-> "start", input |-> RankInput(o), output |-> <<>>]
       \/ ranking = [pc |-> "start", input |-> RankExample, output |-> <<>>]

\* lines 163-176: the call returns the sorted copy
Rank ==
    /\ ranking.pc = "start"
    /\ ranking' = [ranking EXCEPT !.pc = "done", !.output = getSortedSources(ranking.input)]
    /\ UNCHANGED <<precheck, parsing, proxy>>
    /\ UNCHANGED pageVars
    /\ UNCHANGED aggVars

NextRank == Rank

SpecRank == InitRank /\ [][NextRank]_vars

\* --------------------------------------------------------- pickBestSource
\* lines 141-157, the comparator of pickBestSource: seeds are compared only
\* when both sources have a seed count that is truthy (present and not 0)
Truthy(seeds) == seeds # NoSeeds /\ seeds # 0

PickCompare(a, b) ==
    IF a.cached /\ ~b.cached THEN -1
    ELSE IF ~a.cached /\ b.cached THEN 1
    ELSE IF QUALITY_RANK(b.quality) - QUALITY_RANK(a.quality) # 0
         THEN QUALITY_RANK(b.quality) - QUALITY_RANK(a.quality)
    ELSE IF Truthy(a.seeds) /\ Truthy(b.seeds) THEN b.seeds - a.seeds
    ELSE 0

\* Array.prototype.sort with a consistent comparator: the stable order
InsertPicked(s, x) ==
    LET before == { k \in 1..Len(s) : PickCompare(x, s[k]) < 0 }
        pos == IF before = {} THEN Len(s) + 1
               ELSE CHOOSE k \in before : \A j \in before : k <= j
    IN SubSeq(s, 1, pos - 1) \o <<x>> \o SubSeq(s, pos, Len(s))

RECURSIVE SortPicked(_, _)
SortPicked(s, n) ==
    IF n = 0 THEN <<>> ELSE InsertPicked(SortPicked(s, n - 1), s[n])

\* ECMA-262, Array.prototype.sort: the comparator is consistent on the
\* elements when its ties and its orders are symmetric and transitive;
\* when it is not, the order of the result is implementation-defined
Sign(n) == IF n < 0 THEN -1 ELSE IF n > 0 THEN 1 ELSE 0

ConsistentOn(s) ==
    LET sgn(i, j) == Sign(PickCompare(s[i], s[j])) IN
    \A i, j, k \in 1..Len(s) :
        /\ sgn(i, j) = 0 - sgn(j, i)
        /\ sgn(i, j) = sgn(j, k) => sgn(i, k) = sgn(i, j)

\* lines 138-160: what pickBestSource can return for a list that is not
\* empty: sorted[0]
PickOutcomes(s) ==
    IF ConsistentOn(s) THEN { SortPicked(s, Len(s))[1] }
    ELSE { s[k] : k \in 1..Len(s) }

\* the lists pickBestSource is given here: two quality labels, any cached
\* flag, seeds missing, 0 or positive
PickOffers ==
    { [quality |-> q, seeds |-> n, cached |-> c] :
        q \in {"1080p", "720p"}, n \in RankSeeds, c \in BOOLEAN }

InitPick ==
    /\ debridKey = TRUE
    /\ scenario = "any"
    /\ sources = <<>>
    /\ sourcesLoading = FALSE
    /\ showSourcePicker = FALSE
    /\ playingSource = NoSource
    /\ playError = ""
    /\ playerUrl = NoUrl
    /\ isPlaying = FALSE
    /\ opened = <<>>
    /\ runs = <<>>
    /\ rdDeletes = <<>>
    /\ providers = <<>>
    /\ calls = <<>>
    /\ fanout = NoFanout
    /\ localStorage = <<>>
    /\ precheck = NoPrecheck
    /\ parsing = NoParsing
    /\ proxy = NoProxy
    /\ \E n \in 0..MaxRank : \E o \in [1..n -> PickOffers] :
          ranking = [pc |-> "pick", input |-> RankInput(o), output |-> <<>>]

\* lines 138-160: the call returns null (output stays empty) for an empty
\* list and the first element of the sorted copy otherwise
Pick ==
    /\ ranking.pc = "pick"
    /\ IF Len(ranking.input) = 0
       THEN ranking' = [ranking EXCEPT !.pc = "picked"]
       ELSE \E best \in PickOutcomes(ranking.input) :
               ranking' = [ranking EXCEPT !.pc = "picked", !.output = <<best>>]
    /\ UNCHANGED <<precheck, parsing, proxy>>
    /\ UNCHANGED pageVars
    /\ UNCHANGED aggVars

NextPick == Pick

SpecPick == InitPick /\ [][NextPick]_vars

\* ------------------------------------------------------- checkDebridCache
\* const batchSize = 50
batchSize == 50

\* An info-hash is the part of the string the two regular expressions tell
\* apart: "hex40" is 40 hexadecimal digits; "base32" is 32 characters of
\* a-z2-7 that start with a letter after f; "base32hex" is 32 such
\* characters that start with letters of a-f or digits of 2-7; "short" is
\* fewer than 40 hexadecimal digits with a 0, 1, 8 or 9 among the first 32.
\* n tells the hashes of one form apart, upper says the string has capitals.
Hash(form, n, upper) == [form |-> form, n |-> n, upper |-> upper]

NoHash == Hash("none", 0, FALSE)

toLowerCase(h) == [h EXCEPT !.upper = FALSE]

toUpperCase(h) == [h EXCEPT !.upper = TRUE]

Magnet(h) == Url("magnet", "", "", h)

DirectUrl == Url("https", "cdn.example", "mp4", NoHash)

\* lines 439-440: m.match(/btih:([a-fA-F0-9]{40}|[a-zA-Z2-7]{32})/i), then
\* match[1].toLowerCase(), or null
ExtractHash(u) ==
    IF u.hash.form \in {"hex40", "base32", "base32hex"} THEN toLowerCase(u.hash) ELSE NoHash

\* part_006 line 146: source.url.match(/btih:([a-fA-F0-9]+)/i)?.[1]
\* ?.toLowerCase(): the run of hexadecimal digits after btih:, which for a
\* base32 hash is its first few characters or nothing
PageHash(u) ==
    CASE u.hash.form \in {"hex40", "short"} -> toLowerCase(u.hash)
      [] u.hash.form = "base32hex" -> Hash("hexprefix", u.hash.n, FALSE)
      [] OTHER -> NoHash

PrecheckSource(k, url) == StreamSource(k, url, "Torrentio", "1080p")

\* n magnets with n different hashes
DistinctMagnets(n) ==
    [k \in 1..n |-> PrecheckSource(k, Magnet(Hash("hex40", k, FALSE)))]

\* n magnets, the first two with the same hash
RepeatedMagnets(n) ==
    [k \in 1..n |->
        PrecheckSource(k, Magnet(Hash("hex40", IF k = 1 THEN 1 ELSE k - 1, FALSE)))]

MixedUrls ==
    { Magnet(Hash("hex40", 1, TRUE)), Magnet(Hash("base32", 2, FALSE)),
      Magnet(Hash("base32hex", 3, TRUE)), Magnet(Hash("short", 4, FALSE)), DirectUrl }

\* the lists fetchAllSources can hand to the precheck
PrecheckInputs ==
    { DistinctMagnets(n) : n \in 0..MaxMagnets }
    \cup { RepeatedMagnets(n) : n \in 2..MaxMagnets }
    \cup { [k \in 1..Len(us) |-> PrecheckSource(k, us[k])] : us \in SeqsUpTo(MixedUrls, 2) }

\* The objects instantAvailability can answer for a request: entries of
\* hash and info, where info is "none" (no rd key, as in []), "empty"
\* (rd: []) or "variants" (rd with an element).  The service names the
\* hashes it was asked about, in its own letter case.
BatchData(batch) ==
    LET asked == { batch[k] : k \in 1..Len(batch) } IN
    { {},
      { [key |-> toUpperCase(h), info |-> "variants"] : h \in asked },
      { [key |-> h, info |-> "empty"] : h \in asked },
      { [key |-> h, info |-> "none"] : h \in asked },
      { [key |-> batch[1], info |-> "variants"] } }

\* fetch rejects, the answer is not OK, or it is OK with a body
BatchAnswers(batch) ==
    { [status |-> "throw", data |-> {}], [status |-> "http_error", data |-> {}] }
    \cup { [status |-> "ok", data |-> d] : d \in BatchData(batch) }

\* line 463: !!(rdInfo && rdInfo.rd && rdInfo.rd.length > 0)
IsCachedInfo(info) == info = "variants"

\* lines 460-464: cached[hash.toLowerCase()] = ... for every entry
Store(cached, data) ==
    [h \in DOMAIN cached \cup { toLowerCase(e.key) : e \in data } |->
        IF \E e \in data : toLowerCase(e.key) = h
        THEN IsCachedInfo((CHOOSE e \in data : toLowerCase(e.key) = h).info)
        ELSE cached[h]]

\* a bug to tell C25 by: a failed request costs the answers before it
AbsorbOrReset(cached, answer) ==
    IF answer.status = "ok" THEN Store(cached, answer.data) ELSE [h \in {} |-> FALSE]

\* lines 453-468: the body of the loop on the answer to its request; a
\* rejected fetch is caught and logged, a non-OK answer is skipped
Absorb(cached, answer) ==
    IF answer.status = "ok" THEN Store(cached, answer.data) ELSE cached

\* a bug to tell C22 by: the slice takes in the element at its end index
SliceInclusive(hashes, i, size) ==
    SubSeq(hashes, i + 1, IF i + size + 1 < Len(hashes) THEN i + size + 1 ELSE Len(hashes))

\* hashes.slice(i, i + batchSize)
Slice(hashes, i, size) ==
    SubSeq(hashes, i + 1, IF i + size < Len(hashes) THEN i + size ELSE Len(hashes))

\* part_006 lines 144-151: fetchedSources.forEach over the magnets
MarkFetched(fetched, cacheStatus) ==
    [k \in 1..Len(fetched) |->
        IF IsMagnet(fetched[k].url) /\ PageHash(fetched[k].url) # NoHash
        THEN [fetched[k] EXCEPT !.cached =
                 IF PageHash(fetched[k].url) \in DOMAIN cacheStatus
                 THEN cacheStatus[PageHash(fetched[k].url)] ELSE FALSE]
        ELSE fetched[k]]

\* a bug to tell C24 by: the precheck is made without a credential
PrecheckKeyless ==
    /\ precheck.pc = "start"
    /\ LET IsMagnetSource(src) == IsMagnet(src.url)
           magnetLinks == SelectSeq(precheck.fetched, IsMagnetSource)
           IsHash(h) == h # NoHash
           hashes == SelectSeq([k \in 1..Len(magnetLinks) |-> ExtractHash(magnetLinks[k].url)],
                               IsHash)
       IN IF Len(magnetLinks) > 0
          THEN IF Len(hashes) = 0
               THEN precheck' = [precheck EXCEPT !.pc = "done",
                                    !.fetched = MarkFetched(precheck.fetched, <<>>)]
               ELSE precheck' = [precheck EXCEPT !.pc = "batch", !.hashes = hashes, !.i = 0,
                                    !.requests = <<Slice(hashes, 0, batchSize)>>]
          ELSE precheck' = [precheck EXCEPT !.pc = "done"]
    /\ UNCHANGED <<ranking, parsing, proxy>>
    /\ UNCHANGED pageVars
    /\ UNCHANGED aggVars

\* part_006 lines 138-143 and sources.ts lines 431-455: handlePlay calls
\* checkDebridCache when there are magnets and a credential; the call
\* returns {} at once without a credential, without magnets or without a
\* hash, and sends its first request otherwise
Precheck ==
    /\ precheck.pc = "start"
    /\ LET IsMagnetSource(src) == IsMagnet(src.url)
           magnetLinks == SelectSeq(precheck.fetched, IsMagnetSource)
           IsHash(h) == h # NoHash
           hashes == SelectSeq([k \in 1..Len(magnetLinks) |-> ExtractHash(magnetLinks[k].url)],
                               IsHash)
       IN IF Len(magnetLinks) > 0 /\ debridKey
          THEN IF ~debridKey \/ Len(magnetLinks) = 0 \/ Len(hashes) = 0
               THEN precheck' = [precheck EXCEPT !.pc = "done",
                                    !.fetched = MarkFetched(precheck.fetched, <<>>)]
               ELSE precheck' = [precheck EXCEPT !.pc = "batch", !.hashes = hashes, !.i = 0,
                                    !.requests = <<Slice(hashes, 0, batchSize)>>]
          ELSE precheck' = [precheck EXCEPT !.pc = "done"]
    /\ UNCHANGED <<ranking, parsing, proxy>>
    /\ UNCHANGED pageVars
    /\ UNCHANGED aggVars

\* lines 453-471 and part_006 lines 143-151: the request of the loop is
\* answered; the loop goes on to the next slice, or checkDebridCache
\* returns cached and handlePlay marks its sources
BatchResponse ==
    /\ precheck.pc = "batch"
    /\ \E answer \in BatchAnswers(precheck.requests[Len(precheck.requests)]) :
         LET cached == Absorb(precheck.cached, answer)
             i == precheck.i + batchSize
             seen == [precheck EXCEPT !.cached = cached, !.i = i,
                                      !.answers = Append(@, answer)]
         IN IF i < Len(precheck.hashes)
            THEN precheck' = [seen EXCEPT !.requests =
                                 Append(@, Slice(precheck.hashes, i, batchSize))]
            ELSE precheck' = [seen EXCEPT !.pc = "done",
                                 !.fetched = MarkFetched(precheck.fetched, cached)]
    /\ UNCHANGED <<ranking, parsing, proxy>>
    /\ UNCHANGED pageVars
    /\ UNCHANGED aggVars

\* the precheck of one handlePlay call, with or without a credential
InitCache ==
    /\ debridKey \in BOOLEAN
    /\ scenario = "any"
    /\ sources = <<>>
    /\ sourcesLoading = FALSE
    /\ showSourcePicker = FALSE
    /\ playingSource = NoSource
    /\ playError = ""
    /\ playerUrl = NoUrl
    /\ isPlaying = FALSE
    /\ opened = <<>>
    /\ runs = <<>>
    /\ rdDeletes = <<>>
    /\ providers = <<>>
    /\ calls = <<>>
    /\ fanout = NoFanout
    /\ localStorage = <<>>
    /\ ranking = NoRanking
    /\ parsing = NoParsing
    /\ proxy = NoProxy
    /\ \E f \in PrecheckInputs :
          precheck = [NoPrecheck EXCEPT !.pc = "start", !.fetched = f]

NextCache ==
    \/ Precheck
    \/ BatchResponse

SpecCache == InitCache /\ [][NextCache]_vars

\* ----------------------------------------------------------- parseQuality
\* A title is a sequence of pieces of text.  The pieces are chosen so that
\* a token of parseQuality can only begin and end where a piece does: the
\* four resolution tokens are pieces of their own, the letter tokens (4k,
\* uhd, fhd, hd, sd) are spelled from one-character pieces, in either
\* case, and "x" is a character of no token.
TitlePieces ==
    { "2160p", "1080p", "1080P", "720p", "480p",
      "4", "k", "K", "u", "h", "H", "d", "D", "f", "s", "S", "x" }

\* String.prototype.toLowerCase, piece by piece
LowerPiece(c) ==
    CASE c = "1080P" -> "1080p"
      [] c = "K" -> "k"
      [] c = "H" -> "h"
      [] c = "D" -> "d"
      [] c = "S" -> "s"
      [] OTHER -> c

LowerTitle(title) == [k \in 1..Len(title) |-> LowerPiece(title[k])]

\* String.prototype.includes
Includes(text, token) ==
    \E i \in 1..(Len(text) - Len(token) + 1) :
        \A j \in 1..Len(token) : text[i + j - 1] = token[j]

\* a bug to tell C32 by: the rules are tried from the last to the first
parseQualityLastFirst(title) ==
    LET lower == LowerTitle(title) IN
    IF Includes(lower, <<"480p">>) \/ Includes(lower, <<"s", "d">>) THEN "480p"
    ELSE IF Includes(lower, <<"720p">>) \/ Includes(lower, <<"h", "d">>) THEN "720p"
    ELSE IF Includes(lower, <<"1080p">>) \/ Includes(lower, <<"f", "h", "d">>) THEN "1080p"
    ELSE IF Includes(lower, <<"2160p">>) \/ Includes(lower, <<"4", "k">>)
            \/ Includes(lower, <<"u", "h", "d">>) THEN "4K"
    ELSE "Unknown"

\* lines 42-49
parseQuality(title) ==
    LET lower == LowerTitle(title) IN
    IF Includes(lower, <<"2160p">>) \/ Includes(lower, <<"4", "k">>)
       \/ Includes(lower, <<"u", "h", "d">>) THEN "4K"
    ELSE IF Includes(lower, <<"1080p">>) \/ Includes(lower, <<"f", "h", "d">>) THEN "1080p"
    ELSE IF Includes(lower, <<"720p">>) \/ Includes(lower, <<"h", "d">>) THEN "720p"
    ELSE IF Includes(lower, <<"480p">>) \/ Includes(lower, <<"s", "d">>) THEN "480p"
    ELSE "Unknown"

InitQuality ==
    /\ debridKey = TRUE
    /\ scenario = "any"
    /\ sources = <<>>
    /\ sourcesLoading = FALSE
    /\ showSourcePicker = FALSE
    /\ playingSource = NoSource
    /\ playError = ""
    /\ playerUrl = NoUrl
    /\ isPlaying = FALSE
    /\ opened = <<>>
    /\ runs = <<>>
    /\ rdDeletes = <<>>
    /\ providers = <<>>
    /\ calls = <<>>
    /\ fanout = NoFanout
    /\ localStorage = <<>>
    /\ precheck = NoPrecheck
    /\ ranking = NoRanking
    /\ proxy = NoProxy
    /\ \E n \in 0..MaxTitle : \E title \in [1..n -> TitlePieces] :
          parsing = [pc |-> "start", title |-> title, quality |-> ""]

\* the call returns
ParseQuality ==
    /\ parsing.pc = "start"
    /\ parsing' = [parsing EXCEPT !.pc = "done", !.quality = parseQuality(parsing.title)]
    /\ UNCHANGED <<precheck, ranking, proxy>>
    /\ UNCHANGED pageVars
    /\ UNCHANGED aggVars

NextQuality == ParseQuality

SpecQuality == InitQuality /\ [][NextQuality]_vars

\* ------------------------------------------- the backend's realdebrid proxy
\* a request to ${RD_API}/<path>[/<id>]: bearer says it has the header
\* Authorization: Bearer <key>, apiKey that its query has apiKey=<key>
Request(method, path, id, bearer, apiKey) ==
    [method |-> method, path |-> path, id |-> id, bearer |-> bearer, apiKey |-> apiKey]

\* the requests the client code sends when a credential is configured
ClientRequests ==
    { Request("POST", "torrents/addMagnet", 0, TRUE, FALSE),
      Request("POST", "unrestrict/link", 0, TRUE, FALSE),
      Request("GET", "torrents/instantAvailability", 0, TRUE, FALSE),
      Request("GET", "user", 0, TRUE, FALSE) }
    \cup { Request("GET", "torrents/info", t, FALSE, TRUE) : t \in 1..2 }
    \cup { Request("POST", "torrents/selectFiles", t, TRUE, FALSE) : t \in 1..2 }
    \cup { Request("DELETE", "torrents/delete", t, FALSE, TRUE) : t \in 1..2 }

\* what api.real-debrid.com can answer the backend: no answer at all, or a
\* status with a body that is empty, JSON or neither
UpstreamAnswers ==
    { [status |-> 0, text |-> ""] }
    \cup { [status |-> c, text |-> t] : c \in {200, 204, 401, 404, 503},
                                        t \in {"", "json", "html"} }

Reply(request, status, forwarded) ==
    [request |-> request, status |-> status, forwarded |-> forwarded]

\* the request arrives at the backend
Receive(request) ==
    /\ proxy.pc = "idle"
    /\ Len(proxy.replies) < MaxRequests
    /\ proxy' = [proxy EXCEPT !.pc = "received", !.request = request]
    /\ UNCHANGED <<precheck, ranking, parsing>>
    /\ UNCHANGED pageVars
    /\ UNCHANGED aggVars

\* proxy.ts lines 565-580: server.post('/realdebrid/*'), up to its fetch
PostRealdebrid ==
    /\ proxy.pc = "received"
    /\ proxy.request.method = "POST"
    /\ IF ~proxy.request.bearer
       THEN proxy' = [proxy EXCEPT !.pc = "idle",
                         !.replies = Append(@, Reply(proxy.request, 400, FALSE))]
       ELSE proxy' = [proxy EXCEPT !.pc = "upstream",
                         !.upstream = Append(@, [proxy.request EXCEPT !.bearer = TRUE,
                                                                      !.apiKey = FALSE])]
    /\ UNCHANGED <<precheck, ranking, parsing>>
    /\ UNCHANGED pageVars
    /\ UNCHANGED aggVars

\* proxy.ts lines 607-622: server.get('/realdebrid/*'), up to its fetch
GetRealdebrid ==
    /\ proxy.pc = "received"
    /\ proxy.request.method = "GET"
    /\ IF ~proxy.request.apiKey
       THEN proxy' = [proxy EXCEPT !.pc = "idle",
                         !.replies = Append(@, Reply(proxy.request, 400, FALSE))]
       ELSE proxy' = [proxy EXCEPT !.pc = "upstream",
                         !.upstream = Append(@, [proxy.request EXCEPT !.bearer = TRUE,
                                                                      !.apiKey = FALSE])]
    /\ UNCHANGED <<precheck, ranking, parsing>>
    /\ UNCHANGED pageVars
    /\ UNCHANGED aggVars

\* proxy.ts has routes for GET and POST only (lines 13-607): a request of
\* another method matches none and the server answers 404 itself
NotFound ==
    /\ proxy.pc = "received"
    /\ proxy.request.method \notin {"GET", "POST"}
    /\ proxy' = [proxy EXCEPT !.pc = "idle",
                    !.replies = Append(@, Reply(proxy.request, 404, FALSE))]
    /\ UNCHANGED <<precheck, ranking, parsing>>
    /\ UNCHANGED pageVars
    /\ UNCHANGED aggVars

\* proxy.ts lines 580-603 and 622-642: the answer of the service is read
\* as text and parsed; an answer that is not OK is passed on with its
\* status, an OK one is sent as 200, an error on the way gives 500
UpstreamResponse ==
    /\ proxy.pc = "upstream"
    /\ \E answer \in UpstreamAnswers :
         LET status == IF answer.status = 0 \/ answer.text = "html" THEN 500
                       ELSE IF answer.status \in {200, 204} THEN 200
                       ELSE answer.status
         IN proxy' = [proxy EXCEPT !.pc = "idle",
                         !.replies = Append(@, Reply(proxy.request, status, TRUE))]
    /\ UNCHANGED <<precheck, ranking, parsing>>
    /\ UNCHANGED pageVars
    /\ UNCHANGED aggVars

InitProxy ==
    /\ debridKey = TRUE
    /\ scenario = "any"
    /\ sources = <<>>
    /\ sourcesLoading = FALSE
    /\ showSourcePicker = FALSE
    /\ playingSource = NoSource
    /\ playError = ""
    /\ playerUrl = NoUrl
    /\ isPlaying = FALSE
    /\ opened = <<>>
    /\ runs = <<>>
    /\ rdDeletes = <<>>
    /\ providers = <<>>
    /\ calls = <<>>
    /\ fanout = NoFanout
    /\ localStorage = <<>>
    /\ precheck = NoPrecheck
    /\ ranking = NoRanking
    /\ parsing = NoParsing
    /\ proxy = NoProxy

NextProxy ==
    \/ \E request \in ClientRequests : Receive(request)
    \/ PostRealdebrid
    \/ GetRealdebrid
    \/ NotFound
    \/ UpstreamResponse

SpecProxy == InitProxy /\ [][NextProxy]_vars

\* ------------------------------------------------------------- properties
Runs == 1..Len(runs)

\* addToDebrid has returned to its caller
Returned(r) == runs[r].pc = "resume"

\* an addToDebrid call of run r is between its first request and its return
InFlight(r) == runs[r].pc \in {"addMagnet", "info", "selectFiles", "unrestrict", "delete"}

Deletes(log) == { p \in 1..Len(log) : log[p].call = "delete" }

\* the log entry at p is an info answer of one of the given classes
InfoAt(log, p, classes) == log[p].call = "info" /\ log[p].resp \in classes

\* after the info answer logged at p the resolver does nothing but delete
\* the torrent, once, and fail with one of the given errors
DeleteThenFail(r, p, errs) ==
    LET rd == runs[r].rd IN
    /\ rd.err \in errs
    /\ p = Len(rd.log) => runs[r].pc = "delete"
    /\ p < Len(rd.log) =>
         /\ Len(rd.log) = p + 1
         /\ rd.log[p + 1].call = "delete"
         /\ rd.log[p + 1].arg = rd.tid
         /\ rdDeletes[rd.tid] = 1
         /\ Returned(r)
         /\ rd.result = NoUrl

\* C1: the automatic fallback attempts the ranked list in order, one
\* candidate at a time: attempt j is on candidate j of getSortedSources'
\* output, every attempt but the last has ended in failure, and while the
\* player shows a stream, the last attempt is the one that succeeded and its
\* candidate is the one reported as playing.
C1_RankedOrder ==
    \A r \in Runs :
        runs[r].kind = "handlePlay" /\ runs[r].pc # "fetch" =>
            LET att == runs[r].attempts IN
            /\ runs[r].all = sources
            /\ \A j \in 1..Len(att) : att[j].idx = j
            /\ \A j \in 1..(Len(att) - 1) : att[j].outcome = "failed"
            /\ InFlight(r) => att[Len(att)].outcome = "pending"
            /\ isPlaying =>
                 /\ att[Len(att)].outcome = "playing"
                 /\ playingSource = runs[r].all[Len(att)]

C1_Witness ==
    \E r \in Runs :
        /\ runs[r].pc = "done"
        /\ Len(runs[r].attempts) = 3
        /\ runs[r].attempts[1].tid # 0
        /\ runs[r].attempts[3].outcome = "playing"
        /\ runs[r].all[1].id # 1
        /\ isPlaying

\* C2: whenever addToDebrid returns null after addMagnet succeeded, a delete
\* of that torrent was requested before it returned.
C2_DeleteOnEveryFailure ==
    \A r \in Runs :
        Returned(r) /\ runs[r].rd.tid # 0 /\ runs[r].rd.result = NoUrl =>
            \E p \in Deletes(runs[r].rd.log) : runs[r].rd.log[p].arg = runs[r].rd.tid

\* C3: an info poll answered 400, in either phase, is followed by exactly
\* one delete of the torrent and then by the resolver's failure (not
\* cached); no info, selectFiles or unrestrict request follows it.
C3_Http400 ==
    \A r \in Runs : \A p \in 1..Len(runs[r].rd.log) :
        InfoAt(runs[r].rd.log, p, {"400"}) =>
            DeleteThenFail(r, p, {"Torrent not cached on Real-Debrid", "Torrent not available"})

C3_Witness ==
    \E r \in Runs :
        /\ runs[r].pc = "resume"
        /\ Len(runs[r].rd.log) = 5
        /\ InfoAt(runs[r].rd.log, 4, {"400"})
        /\ runs[r].rd.log[4].phase = 2

\* C4: the links phase makes at most 30 info polls, and when it has timed
\* out the torrent has been deleted before the resolver fails.
C4_LinksTimeoutDeletes ==
    \A r \in Runs :
        /\ runs[r].pc = "info" /\ runs[r].rd.phase = 2 => runs[r].rd.polls <= LinksMaxAttempts
        /\ Returned(r) /\ runs[r].rd.err = "Torrent download timeout" =>
             Deletes(runs[r].rd.log) # {}

\* C5: the first phase makes at most 10 info polls; when the tenth is also
\* answered with a non-terminal status the resolver requests the delete,
\* and a resolver that timed out in the first phase has sent addMagnet and
\* one delete and nothing else (no selectFiles, no unrestrict).
C5_ReadyTimeoutState ==
    \A r \in Runs :
        LET rd == runs[r].rd IN
        /\ runs[r].pc = "info" /\ rd.phase = 1 => rd.polls <= ReadyMaxAttempts /\ rd.i < rd.polls
        /\ rd.err = "Torrent not ready in time" =>
             /\ runs[r].pc = "delete" => Len(rd.log) = 1
             /\ runs[r].pc # "delete" =>
                  /\ Returned(r)
                  /\ rd.result = NoUrl
                  /\ Len(rd.log) = 2
                  /\ rd.log[2].call = "delete" /\ rd.log[2].arg = rd.tid
                  /\ rdDeletes[rd.tid] = 1

C5_TenthPoll ==
    \A r \in Runs :
        /\ runs[r].pc = "info"
        /\ runs[r].rd.phase = 1
        /\ runs[r].rd.polls = ReadyMaxAttempts
        /\ runs'[r] # runs[r]
        /\ runs'[r].rd.log = runs[r].rd.log
        => /\ runs'[r].pc = "delete"
           /\ runs'[r].rd.err = "Torrent not ready in time"

C5_ReadyTimeout == [](C5_ReadyTimeoutState) /\ [][C5_TenthPoll]_vars

C5_Witness ==
    \E r \in Runs :
        /\ runs[r].pc = "resume"
        /\ runs[r].rd.err = "Torrent not ready in time"
        /\ rdDeletes[runs[r].rd.tid] = 1

\* C6: in both phases an info answer with status magnet_error, error, virus
\* or dead is followed by the delete of the torrent and the resolver's
\* failure, without another poll.
C6_ErrorStatus ==
    \A r \in Runs : \A p \in 1..Len(runs[r].rd.log) :
        InfoAt(runs[r].rd.log, p, ErrorStatuses) => DeleteThenFail(r, p, {"Torrent error"})

C6_Witness ==
    \E r \in Runs :
        /\ runs[r].pc = "resume"
        /\ Len(runs[r].rd.log) = 5
        /\ InfoAt(runs[r].rd.log, 4, {"virus"})
        /\ runs[r].rd.log[4].phase = 2
        /\ runs[r].rd.log[5].call = "delete"

\* C7: when the resolver fails on the first two of three magnets and
\* succeeds on the third, the third is played and a delete was requested
\* for the torrents of the first two and not for the third's.
C7_CleanupOfFirstTwo ==
    \A r \in Runs :
        LET att == runs[r].attempts IN
        /\ runs[r].kind = "handlePlay"
        /\ runs[r].pc = "done"
        /\ Len(att) = 3
        /\ \A j \in 1..3 : IsMagnet(runs[r].all[j].url)
        /\ att[3].outcome = "playing"
        => /\ playingSource = runs[r].all[3]
           /\ \A j \in 1..2 : att[j].tid # 0 => rdDeletes[att[j].tid] = 1
           /\ rdDeletes[att[3].tid] = 0

\* the providers a message names: both messages of the page are literals
NamedProviders(msg) == <<>>

Exhausted(r) ==
    /\ runs[r].kind = "handlePlay"
    /\ runs[r].pc = "done"
    /\ \A j \in 1..Len(runs[r].attempts) : runs[r].attempts[j].outcome = "failed"

C9_NoKeyMagnet ==
    ~debridKey =>
        /\ rdDeletes = <<>>
        /\ \A r \in Runs :
             /\ ~InFlight(r) /\ runs[r].rd.log = <<>>
             /\ \A j \in 1..Len(runs[r].attempts) :
                  LET source == runs[r].all[runs[r].attempts[j].idx] IN
                  IsMagnet(source.url) =>
                      /\ j = Len(runs[r].attempts)
                      /\ runs[r].attempts[j].outcome = "external"
                      /\ runs[r].pc = "done"
                      /\ opened = <<source.url>>
                      /\ playError = ""
                      /\ ~showSourcePicker
                      /\ ~isPlaying

C9_Witness ==
    \E r \in Runs :
        /\ ~debridKey
        /\ Len(runs[r].attempts) = 2
        /\ Len(runs[r].all) = 3
        /\ IsMagnet(runs[r].all[2].url)
        /\ runs[r].pc = "done"

VideoFiles(files) ==
    { k \in 1..Len(files) : files[k].ext \in playableExtensions /\ files[k].selected = 0 }

C11_FileSelection ==
    \A r \in Runs :
        runs[r].pc = "selectFiles" =>
            LET files == runs[r].rd.files
                fileIds == runs[r].rd.fileIds
            IN /\ VideoFiles(files) # {} =>
                    /\ fileIds # "all"
                    /\ \E k \in VideoFiles(files) :
                         /\ fileIds = ToString(files[k].id)
                         /\ \A j \in VideoFiles(files) : files[j].bytes <= files[k].bytes
               /\ VideoFiles(files) = {} => fileIds = "all"

C11_Witness ==
    \E r \in Runs :
        /\ runs[r].pc = "selectFiles"
        /\ Len(runs[r].rd.files) = 3
        /\ runs[r].rd.files[1].selected = 1
        /\ runs[r].rd.fileIds = "3"

\* C12: a URL returned by addToDebrid is the download URL that the last
\* request, an unrestrict/link answered OK, reported, and it has no
\* archive/disc-image extension; when unrestrict reports a download URL with
\* such an extension addToDebrid returns null.
C12_ResolvedUrl ==
    \A r \in Runs :
        LET rd == runs[r].rd IN
        Returned(r) =>
            /\ rd.result # NoUrl =>
                 /\ ~IsArchive(rd.result)
                 /\ rd.result = rd.download
                 /\ rd.log[Len(rd.log)].call = "unrestrict"
                 /\ rd.log[Len(rd.log)].resp = "ok"
            /\ IsArchive(rd.download) => rd.result = NoUrl

C12_Witness ==
    \E r \in Runs :
        /\ Returned(r)
        /\ runs[r].rd.result = RdbMkv
        /\ runs[r].rd.links = <<Link(1, "rar"), Link(2, "mkv")>>

\* link is the first link of links, in order, without an archive extension
FirstPlayable(links, link) ==
    \E k \in 1..Len(links) :
        /\ links[k] = link
        /\ links[k].ext \notin ArchiveExt
        /\ \A j \in 1..(k - 1) : links[j].ext \in ArchiveExt

\* C13: unrestrict/link is requested for the first returned link without an
\* archive/disc-image extension and for no other; when every returned link
\* is an archive the resolver fails with neither an unrestrict nor a delete
\* request.
C13_FirstPlayableLink ==
    \A r \in Runs :
        LET rd == runs[r].rd IN
        /\ runs[r].pc = "unrestrict" => FirstPlayable(rd.links, rd.link)
        /\ \A p \in 1..Len(rd.log) :
             rd.log[p].call = "unrestrict" => FirstPlayable(rd.links, rd.log[p].arg)
        /\ (rd.links # <<>> /\ \A k \in 1..Len(rd.links) : rd.links[k].ext \in ArchiveExt) =>
             /\ Returned(r)
             /\ rd.result = NoUrl
             /\ \A p \in 1..Len(rd.log) : rd.log[p].call \notin {"unrestrict", "delete"}
             /\ rdDeletes[rd.tid] = 0

C13_Witness ==
    \E r \in Runs :
        /\ Returned(r)
        /\ runs[r].rd.links = <<Link(1, "mkv"), Link(2, "mp4")>>
        /\ runs[r].rd.log[Len(runs[r].rd.log)].call = "unrestrict"
        /\ runs[r].rd.log[Len(runs[r].rd.log)].arg = Link(1, "mkv")

\* the errors addToDebrid deletes the torrent for
DeleteErrors ==
    {"Torrent not cached on Real-Debrid", "Torrent not available", "Torrent error",
     "Torrent not ready in time"}

C14_AfterDelete ==
    \A r \in Runs : \A p \in 1..Len(runs[r].rd.log) :
        runs[r].rd.log[p].call = "delete" =>
            /\ p = Len(runs[r].rd.log)
            /\ Returned(r)
            /\ runs[r].rd.result = NoUrl
            /\ runs[r].rd.err \in DeleteErrors

C14_DeleteAnswered ==
    \A r \in Runs :
        runs[r].pc = "delete" /\ runs'[r] # runs[r] =>
            /\ runs'[r].pc = "resume"
            /\ runs'[r].rd.result = NoUrl
            /\ runs'[r].rd.err = runs[r].rd.err

\* C14: whatever the DELETE request is answered (OK, an HTTP error, a
\* rejected fetch), addToDebrid returns null with the error it had before
\* the delete, and no error of the delete itself is reported.
C14_DeleteFailureSwallowed == [](C14_AfterDelete) /\ [][C14_DeleteAnswered]_vars

C14_Witness ==
    \E r \in Runs :
        /\ Returned(r)
        /\ Len(runs[r].rd.log) = 5
        /\ runs[r].rd.log[5].call = "delete"
        /\ runs[r].rd.log[5].resp = "throw"
        /\ runs[r].rd.err = "Torrent error"

InlineCandidate(source) ==
    /\ ~IsMagnet(source.url)
    /\ source.url.scheme \in {"http", "https"}
    /\ IsInline(source.url)

\* the attempt at j of run r succeeded at once and ended the fallback
SucceededAtOnce(r, j) ==
    /\ runs[r].attempts[j].outcome = "playing"
    /\ runs[r].attempts[j].tid = 0
    /\ j = Len(runs[r].attempts)
    /\ runs[r].pc = "done"
    /\ isPlaying
    /\ playingSource = runs[r].all[runs[r].attempts[j].idx]

\* C16 as claimed: the attempt on such a candidate succeeds at once and the
\* player is given exactly the candidate's URL.
C16_ExactLocator ==
    \A r \in Runs : \A j \in 1..Len(runs[r].attempts) :
        LET source == runs[r].all[runs[r].attempts[j].idx] IN
        InlineCandidate(source) =>
            /\ SucceededAtOnce(r, j)
            /\ playerUrl = source.url

\* C16 as amended: the attempt on such a candidate succeeds at once, with no
\* request to the service and no later attempt; the player is given the
\* candidate's URL, or, for a URL on real-debrid.com, that URL wrapped in
\* the video proxy's.
C16_LocatorOrProxied ==
    \A r \in Runs : \A j \in 1..Len(runs[r].attempts) :
        LET source == runs[r].all[runs[r].attempts[j].idx] IN
        InlineCandidate(source) =>
            /\ SucceededAtOnce(r, j)
            /\ runs[r].rd.log = <<>>
            /\ playerUrl = IF source.url.host \in {"real-debrid.com", "download.real-debrid.com"}
                           THEN [source.url EXCEPT !.proxied = TRUE]
                           ELSE source.url

C16_Witness ==
    \E r \in Runs :
        /\ Len(runs[r].all) = 3
        /\ Len(runs[r].attempts) = 2
        /\ runs[r].attempts[1].outcome = "failed"
        /\ runs[r].all[2].url = RdUrl
        /\ runs[r].pc = "done"
        /\ playerUrl = [RdUrl EXCEPT !.proxied = TRUE]

\* the candidates of a list
Range(s) == { s[k] : k \in 1..Len(s) }

\* C17: fetchAllSources never fails, and in its result a provider whose
\* fetch threw or rejected has left nothing while every candidate of every
\* other enabled provider is there.
C17_Isolation ==
    /\ fanout.status # "rejected"
    /\ fanout.status = "fulfilled" =>
         /\ \A k \in 1..Len(calls) :
              calls[k].status = "fulfilled" => Range(calls[k].value) \subseteq Range(fanout.result)
         /\ \A c \in Range(fanout.result) :
              \E k \in 1..Len(calls) :
                  calls[k].status = "fulfilled" /\ c \in Range(calls[k].value)

\* the enabled providers of the registry, in its order
EnabledProviders ==
    LET IsEnabled(q) == q.enabled IN SelectSeq(providers, IsEnabled)

\* C18: the list fetchAllSources returns is the concatenation of the lists
\* the providers enabled at the call resolved to (nothing for a rejected
\* one), taken in the order of the registry, which is ascending in
\* priority, whatever the order the calls settled in.
C18_PriorityOrder ==
    /\ \A i, j \in 1..Len(providers) : i < j => providers[i].priority <= providers[j].priority
    /\ fanout.status = "fulfilled" =>
         /\ \A i, j \in 1..Len(calls) :
               i < j => calls[i].provider.priority <= calls[j].provider.priority
         /\ Len(calls) = Len(fanout.enabled)
         /\ \A k \in 1..Len(calls) : calls[k].provider = fanout.enabled[k]
         /\ fanout.result =
              Flatten([k \in 1..Len(calls) |->
                         IF calls[k].status = "fulfilled" THEN calls[k].value ELSE <<>>],
                      Len(calls))

C18_Witness ==
    /\ fanout.status = "fulfilled"
    /\ fanout.order = <<2, 1>>
    /\ Len(calls[1].value) = 1
    /\ Len(calls[2].value) = 2
    /\ calls[1].provider.priority < calls[2].provider.priority

\* every provider that is enabled when fetchAllSources is called gets a call
CalledOnEnabled ==
    (fanout.status = "idle" /\ fanout'.status = "waiting") =>
        /\ fanout'.enabled = EnabledProviders
        /\ Len(calls') = Len(EnabledProviders)
        /\ \A k \in 1..Len(calls') : calls'[k].provider = EnabledProviders[k]

AllSettledState ==
    /\ fanout.status = "fulfilled" =>
         /\ Len(calls) = Len(fanout.enabled)
         /\ \A k \in 1..Len(calls) : calls[k].status \in {"fulfilled", "rejected"}
         /\ Len(fanout.order) = Len(calls)
    /\ fanout.status = "waiting" => fanout.result = <<>>

\* C19: fetchAllSources has returned its list only when the fetch of every
\* provider that was enabled at the call has been called and has settled;
\* while one is pending nothing has been returned.
C19_WaitForAll == [](AllSettledState) /\ [][CalledOnEnabled]_vars

C19_Witness ==
    /\ fanout.status = "fulfilled"
    /\ fanout.order = <<1, 2>>
    /\ calls[1].status = "fulfilled"
    /\ Len(calls[1].value) = 3
    /\ calls[2].status = "rejected"

\* C20: no candidate of the list fetchAllSources returns has an empty url.
C20_NoEmptyLocator ==
    \A c \in Range(fanout.result) : c.url # NoUrl

\* C21 (as the specification states it): no two entries of the registry
\* share an id, and no provider is called twice by one fetchAllSources call.
C21_UniqueIds ==
    /\ \A j, k \in 1..Len(providers) : providers[j].id = providers[k].id => j = k
    /\ \A j, k \in 1..Len(calls) : calls[j].provider.id = calls[k].provider.id => j = k

\* the registry is in ascending priority order
SortedByPriority ==
    \A j, k \in 1..Len(providers) : j < k => providers[j].priority <= providers[k].priority

\* a step that keeps the registry's length keeps every id and priority in
\* place and changes at most one flag: that of the first entry with its id,
\* to the value written to localStorage
FlagOnly ==
    Len(providers') = Len(providers) =>
        LET changed == { k \in 1..Len(providers) : providers'[k] # providers[k] } IN
        /\ Cardinality(changed) <= 1
        /\ \A k \in changed :
              /\ providers'[k] = [providers[k] EXCEPT !.enabled = ~providers[k].enabled]
              /\ \A j \in 1..(k - 1) : providers[j].id # providers[k].id
              /\ providers[k].id \in DOMAIN localStorage'
              /\ localStorage'[providers[k].id] = (IF providers'[k].enabled THEN "true" ELSE "false")

\* C30: after any sequence of registerProvider and setProviderEnabled calls
\* getProviders() is sorted by priority ascending; setProviderEnabled
\* changes only the enabled flag of the provider it names, and nothing is
\* changed or stored for an id that is not registered.
C30_RegistryOrder ==
    /\ [](SortedByPriority /\ DOMAIN localStorage \subseteq { providers[k].id : k \in 1..Len(providers) })
    /\ [][FlagOnly]_vars

\* two providers of different priority registered out of order, the second
\* of them disabled by setProviderEnabled afterwards
C30_Witness ==
    /\ Len(providers) = 2
    /\ providers[1] = Provider("torrentio", 1, TRUE)
    /\ providers[2] = Provider("custom", 3, FALSE)
    /\ "custom" \in DOMAIN localStorage
    /\ localStorage["custom"] = "false"
    /\ fanout.status = "fulfilled"

\* a sorts strictly before b: cached before uncached, then the higher
\* quality tier, then the greater seed count with a missing count as 0
Precedes(a, b) ==
    LET tier(x) == CASE x.quality = "4K" -> 4 [] x.quality = "1080p" -> 3
                     [] x.quality = "720p" -> 2 [] x.quality = "480p" -> 1 [] OTHER -> 0
        seeds(x) == IF x.seeds = NoSeeds THEN 0 ELSE x.seeds
    IN \/ a.cached /\ ~b.cached
       \/ a.cached = b.cached /\ tier(a) > tier(b)
       \/ a.cached = b.cached /\ tier(a) = tier(b) /\ seeds(a) > seeds(b)

\* C27: getSortedSources returns its argument's sources, each once, ordered
\* by cached first, then quality tier (4K > 1080p > 720p > 480p > Unknown),
\* then seeds descending with a missing seed count as 0; the example list
\* comes out as [1080p cached, 4K, 720p].
C27_RankOrder ==
    ranking.pc = "done" =>
        /\ Len(ranking.output) = Len(ranking.input)
        /\ \A k \in 1..Len(ranking.input) :
              \E j \in 1..Len(ranking.output) : ranking.output[j] = ranking.input[k]
        /\ \A i, j \in 1..Len(ranking.output) :
              i < j => ~Precedes(ranking.output[j], ranking.output[i])
        /\ ranking.input = RankExample =>
              ranking.output = <<RankExample[2], RankExample[3], RankExample[1]>>

C27_Witness ==
    /\ ranking.pc = "done"
    /\ ranking.input = RankExample
    /\ ranking.output[1].quality = "1080p"

\* C28: the sort is stable: two sources that tie on cached flag, quality
\* tier and seed count come out in the order they went in.
C28_Stable ==
    ranking.pc = "done" =>
        \A i, j \in 1..Len(ranking.output) :
            (/\ i < j
             /\ ~Precedes(ranking.output[i], ranking.output[j])
             /\ ~Precedes(ranking.output[j], ranking.output[i]))
            => ranking.output[i].id < ranking.output[j].id

\* the first and third source tie (720p, no seed count and seed count 0),
\* the second goes before both: the tied ones keep their order
C28_Witness ==
    /\ ranking.pc = "done"
    /\ ranking.input =
         RankInput(<< [quality |-> "720p", seeds |-> NoSeeds, cached |-> FALSE],
                      [quality |-> "4K", seeds |-> 5, cached |-> FALSE],
                      [quality |-> "720p", seeds |-> 0, cached |-> FALSE] >>)
    /\ ranking.output[2].id = 1
    /\ ranking.output[3].id = 3

\* the info polls a resolver run has sent in the phase it is in
PollCeilings ==
    \A r \in Runs :
        /\ runs[r].rd.phase = 1 => runs[r].rd.polls <= 10
        /\ runs[r].rd.phase = 2 => runs[r].rd.polls <= 30

\* C29: when every call to the service returns, an addToDebrid run sends at
\* most 10 info polls in its first phase and at most 30 in its second, and
\* it returns to its caller (a URL or null): it never polls forever.
C29_Terminates ==
    /\ [](PollCeilings)
    /\ (\E r \in Runs : InFlight(r)) ~> (\E r \in Runs : Returned(r))

\* a run that returned after the 30th poll of the second phase
C29_Witness ==
    \E r \in Runs :
        /\ Returned(r)
        /\ runs[r].rd.err = "Torrent download timeout"
        /\ \E p \in 1..Len(runs[r].rd.log) :
              runs[r].rd.log[p].call = "info" /\ runs[r].rd.log[p].phase = 1

\* the places (request, position) at which hash h was sent
SentAt(h) ==
    { <<j, k>> \in (1..Len(precheck.requests)) \X (1..50) :
        k <= Len(precheck.requests[j]) /\ precheck.requests[j][k] = h }

\* C22: no instantAvailability request carries more than 50 hashes; when
\* the precheck is over the requests, one after the other, are the
\* extracted hashes, each sent once, in ceil(n/50) requests for n hashes;
\* a hash that was extracted once was sent in exactly one request.
C22_Batches ==
    /\ \A j \in 1..Len(precheck.requests) :
          Len(precheck.requests[j]) >= 1 /\ Len(precheck.requests[j]) <= 50
    /\ precheck.pc = "done" =>
          /\ Flatten(precheck.requests, Len(precheck.requests)) = precheck.hashes
          /\ Len(precheck.requests) = (Len(precheck.hashes) + 49) \div 50
          /\ \A p \in 1..Len(precheck.hashes) :
                (\A q \in 1..Len(precheck.hashes) : precheck.hashes[q] = precheck.hashes[p] => q = p)
                => Cardinality(SentAt(precheck.hashes[p])) = 1

\* 120 different hashes went out as 50, 50 and 20
C22_Witness ==
    /\ precheck.pc = "done"
    /\ Len(precheck.hashes) = 120
    /\ Cardinality({ precheck.hashes[k] : k \in 1..120 }) = 120
    /\ Len(precheck.requests) = 3
    /\ Len(precheck.requests[1]) = 50
    /\ Len(precheck.requests[2]) = 50
    /\ Len(precheck.requests[3]) = 20

\* C23 (as the specification states it): the hashes are deduplicated before
\* batching, so no hash is sent more than once.
C23_Deduplicated ==
    \A j \in 1..Len(precheck.requests) :
        \A k \in 1..Len(precheck.requests[j]) :
            Cardinality(SentAt(precheck.requests[j][k])) = 1

\* C24: without a credential the precheck sends no request and every
\* source stays not cached.
C24_NoCredential ==
    ~debridKey =>
        /\ precheck.requests = <<>>
        /\ \A k \in 1..Len(precheck.fetched) : ~precheck.fetched[k].cached

\* handlePlay went past the precheck without a credential, with a magnet
C24_Witness ==
    /\ ~debridKey
    /\ precheck.pc = "done"
    /\ \E k \in 1..Len(precheck.fetched) : IsMagnet(precheck.fetched[k].url)

\* the answers whose body was read
OkAnswers == { j \in 1..Len(precheck.answers) : precheck.answers[j].status = "ok" }

\* the hashes named by an answer, in lower case
Named(j) == { toLowerCase(e.key) : e \in precheck.answers[j].data }

\* C25: a request that fails (fetch rejects, or the answer is not OK) adds
\* nothing to the result and takes nothing from it: the result holds the
\* hashes named by the answers that were OK, each with the value of the
\* last such answer; every request of the run is still sent, and the
\* precheck ends with that result.
C25_BatchIsolation ==
    /\ DOMAIN precheck.cached = UNION { Named(j) : j \in OkAnswers }
    /\ \A h \in DOMAIN precheck.cached :
          LET last == CHOOSE j \in OkAnswers :
                         h \in Named(j) /\ \A i \in OkAnswers : h \in Named(i) => i <= j
          IN precheck.cached[h] =
                \E e \in precheck.answers[last].data : toLowerCase(e.key) = h /\ e.info = "variants"
    /\ precheck.pc = "done" =>
          /\ Len(precheck.answers) = Len(precheck.requests)
          /\ Len(precheck.requests) = (Len(precheck.hashes) + 49) \div 50

\* three requests: the first answered with cached hashes, the second
\* failed, the third answered; the first and the third answer are in the
\* result and on the sources, the hashes of the second are not cached
C25_Witness ==
    /\ precheck.pc = "done"
    /\ Len(precheck.answers) = 3
    /\ precheck.answers[1].status = "ok"
    /\ precheck.answers[2].status = "throw"
    /\ precheck.answers[3].status = "ok"
    /\ Len(precheck.fetched) >= 101
    /\ precheck.fetched[1].cached
    /\ ~precheck.fetched[51].cached
    /\ precheck.fetched[101].cached

\* C26 (as the specification states it): after a precheck with a
\* credential a source is cached exactly when it is a magnet whose
\* info-hash the service named with at least one cached variant.
C26_CachedExactly ==
    (precheck.pc = "done" /\ debridKey) =>
        \A k \in 1..Len(precheck.fetched) :
            precheck.fetched[k].cached <=>
                /\ IsMagnet(precheck.fetched[k].url)
                /\ \E j \in OkAnswers : \E e \in precheck.answers[j].data :
                      /\ toLowerCase(e.key) = toLowerCase(precheck.fetched[k].url.hash)
                      /\ e.info = "variants"

\* a step of a fan-out and the registry: the call that starts to wait has
\* called every provider enabled at that moment, once each and no other;
\* a change of the registry while the call waits leaves the calls and the
\* call's own state as they are
SnapshotStep ==
    /\ (fanout.status = "idle" /\ fanout'.status = "waiting") =>
          /\ Len(calls') = Len(EnabledProviders)
          /\ \A k \in 1..Len(calls') : calls'[k].provider = EnabledProviders[k]
    /\ (fanout.status = "waiting" /\ providers' # providers) =>
          /\ calls' = calls
          /\ fanout' = fanout

\* what the call returned is what the providers it called resolved to
SnapshotMerged ==
    fanout.status = "fulfilled" =>
        /\ Len(calls) = Len(fanout.enabled)
        /\ \A k \in 1..Len(calls) : calls[k].provider = fanout.enabled[k]
        /\ fanout.result =
             Flatten([k \in 1..Len(calls) |->
                        IF calls[k].status = "fulfilled" THEN calls[k].value ELSE <<>>],
                     Len(calls))

\* C31: fetchAllSources calls exactly the providers that are enabled when
\* it starts, each once; a setProviderEnabled while it waits changes
\* neither the calls made nor the results that are merged.
C31_Snapshot == [](SnapshotMerged) /\ [][SnapshotStep]_vars

\* the call waits for a provider that setProviderEnabled has disabled since
\* the call started; another provider has settled with a source
C31_Witness ==
    /\ fanout.status = "waiting"
    /\ Len(calls) = 2
    /\ calls[1].status = "fulfilled"
    /\ Len(calls[1].value) > 0
    /\ calls[2].status = "pending"
    /\ calls[2].provider.enabled
    /\ calls[2].provider.id # calls[1].provider.id
    /\ calls[2].provider.id \in DOMAIN localStorage
    /\ localStorage[calls[2].provider.id] = "false"
    /\ \A q \in 1..Len(providers) :
          providers[q].id = calls[2].provider.id => ~providers[q].enabled

\* the title holds one of the tokens, in any letter case
HasToken(title, tokens) ==
    \E token \in tokens :
        \E i \in 1..Len(title) :
            /\ i + Len(token) - 1 <= Len(title)
            /\ \A j \in 1..Len(token) : LowerPiece(title[i + j - 1]) = token[j]

\* C32: parseQuality answers for every title, by the first rule that
\* applies, whatever the letter case: 2160p, 4k or uhd gives 4K; otherwise
\* 1080p or fhd gives 1080p; otherwise 720p or hd gives 720p; otherwise
\* 480p or sd gives 480p; otherwise, the empty title included, Unknown.
C32_Precedence ==
    parsing.pc = "done" =>
        parsing.quality =
            (CASE HasToken(parsing.title, {<<"2160p">>, <<"4", "k">>, <<"u", "h", "d">>}) -> "4K"
               [] HasToken(parsing.title, {<<"1080p">>, <<"f", "h", "d">>}) -> "1080p"
               [] HasToken(parsing.title, {<<"720p">>, <<"h", "d">>}) -> "720p"
               [] HasToken(parsing.title, {<<"480p">>, <<"s", "d">>}) -> "480p"
               [] OTHER -> "Unknown")

\* "1080P4K": tokens of two rules, in capitals; the first rule wins
C32_Witness ==
    /\ parsing.pc = "done"
    /\ parsing.title = <<"1080P", "4", "K">>
    /\ parsing.quality = "4K"

\* C33 (as the specification states it): every DELETE torrents/delete/:id
\* request the resolver sends is passed on to the service by the backend.
C33_DeleteForwarded ==
    \A k \in 1..Len(proxy.replies) :
        proxy.replies[k].request.method = "DELETE" =>
            /\ proxy.replies[k].forwarded
            /\ \E u \in 1..Len(proxy.upstream) :
                  /\ proxy.upstream[u].path = "torrents/delete"
                  /\ proxy.upstream[u].id = proxy.replies[k].request.id

\* C34 (as the specification states it): the instantAvailability request
\* of checkDebridCache is passed on to the service by the backend.
C34_PrecheckForwarded ==
    \A k \in 1..Len(proxy.replies) :
        proxy.replies[k].request.path = "torrents/instantAvailability" =>
            proxy.replies[k].forwarded

\* C35 (as the specification states it): a fallback run attempts no place
\* of its list twice and makes no more attempts than the list has sources.
C35_AtMostOnce ==
    \A r \in Runs :
        /\ Len(runs[r].attempts) <= Len(runs[r].all)
        /\ \A i, j \in 1..Len(runs[r].attempts) :
              runs[r].attempts[i].idx = runs[r].attempts[j].idx => i = j

\* C36: when the first-phase poll of a torrent reports downloaded, the
\* resolver sends no selectFiles request for it: its next request is the
\* first info poll of the links phase.
Phase1Downloaded(log, p) ==
    log[p].call = "info" /\ log[p].phase = 1 /\ log[p].resp = "downloaded"

NoSelectionAfterDownloaded ==
    \A r \in Runs : \A p \in 1..Len(runs[r].rd.log) :
        Phase1Downloaded(runs[r].rd.log, p) =>
            /\ \A q \in 1..Len(runs[r].rd.log) : runs[r].rd.log[q].call # "selectFiles"
            /\ runs[r].pc # "selectFiles"
            /\ p < Len(runs[r].rd.log) => runs[r].rd.log[p + 1].call = "info"
                                          /\ runs[r].rd.log[p + 1].phase = 2

StraightToLinks ==
    \A r \in Runs :
        (/\ r \in 1..Len(runs')
         /\ Len(runs'[r].rd.log) = Len(runs[r].rd.log) + 1
         /\ Phase1Downloaded(runs'[r].rd.log, Len(runs'[r].rd.log)))
        => /\ runs'[r].pc = "info"
           /\ runs'[r].rd.phase = 2
           /\ runs'[r].rd.polls = 1

C36_SkipsSelection == [](NoSelectionAfterDownloaded) /\ [][StraightToLinks]_vars

C36_Witness ==
    \E r \in Runs :
        /\ runs[r].pc = "unrestrict"
        /\ Len(runs[r].rd.log) = 3
        /\ Phase1Downloaded(runs[r].rd.log, 2)
        /\ runs[r].rd.log[3].call = "info"
        /\ runs[r].rd.log[3].phase = 2

\* C37: unrestrict/link is requested only after an info poll of the links
\* phase answered downloaded with a list of links that is not empty; an
\* answer of that phase that is downloaded without links, or a status still
\* on its way, is followed by another poll, or by the timeout after the
\* 30th poll, never by unrestrict/link.
UnrestrictAfterLinks ==
    \A r \in Runs :
        LET log == runs[r].rd.log IN
        /\ runs[r].pc = "unrestrict" =>
              /\ Len(runs[r].rd.links) > 0
              /\ log[Len(log)] = Entry("info", 2, "downloaded", runs[r].rd.tid)
        /\ \A p \in 1..Len(log) :
              log[p].call = "unrestrict" =>
                 /\ p > 1
                 /\ log[p - 1] = Entry("info", 2, "downloaded", runs[r].rd.tid)
                 /\ Len(runs[r].rd.links) > 0

\* a step of the links phase that logs nothing took an answer on its way
PollsOn ==
    \A r \in Runs :
        (/\ r \in 1..Len(runs')
         /\ runs[r].pc = "info"
         /\ runs[r].rd.phase = 2
         /\ runs'[r] # runs[r]
         /\ runs'[r].rd.log = runs[r].rd.log)
        => \/ /\ runs'[r].pc = "info"
              /\ runs'[r].rd.phase = 2
              /\ runs'[r].rd.polls = runs[r].rd.polls + 1
              /\ runs[r].rd.polls < LinksMaxAttempts
           \/ /\ runs'[r].pc = "resume"
              /\ runs[r].rd.polls = LinksMaxAttempts
              /\ runs'[r].rd.err = "Torrent download timeout"

C37_UnrestrictOnlyWithLinks == [](UnrestrictAfterLinks) /\ [][PollsOn]_vars

C37_Witness ==
    \E r \in Runs :
        /\ runs[r].pc = "resume"
        /\ runs[r].rd.result # NoUrl
        /\ Len(runs[r].rd.log) = 5
        /\ runs[r].rd.log[5].call = "unrestrict"
        /\ runs[r].rd.log[4] = Entry("info", 2, "downloaded", runs[r].rd.tid)
        /\ Len(runs[r].rd.links) = 2

\* C38 (as the specification states it): for every list that is not empty
\* pickBestSource returns the source getSortedSources puts first.
C38_SameBest ==
    (ranking.pc = "picked" /\ Len(ranking.input) > 0) =>
        ranking.output = << getSortedSources(ranking.input)[1] >>

\* C39 (as the specification states it): for a magnet whose info-hash has
\* 40 hexadecimal or 32 base32 characters the key handlePlay looks up is the
\* key checkDebridCache stored, and the source is marked with what was
\* stored under it.
C39_SameKey ==
    (precheck.pc = "done" /\ debridKey) =>
        \A k \in 1..Len(precheck.fetched) :
            LET u == precheck.fetched[k].url IN
            (IsMagnet(u) /\ u.hash.form \in {"hex40", "base32", "base32hex"}) =>
                /\ PageHash(u) = ExtractHash(u)
                /\ ExtractHash(u) \in DOMAIN precheck.cached =>
                      precheck.fetched[k].cached = precheck.cached[ExtractHash(u)]

\* a candidate that is no magnet and whose URL has no archive extension, no
\* extension the player takes and no Real-Debrid host
OtherCandidate(source) ==
    /\ ~IsMagnet(source.url)
    /\ ~IsArchive(source.url)
    /\ ~IsInline(source.url)
    /\ ~IsRdHost(source.url)

\* C40: the attempt on such a candidate ends the fallback without an error:
\* its URL is opened externally, the player is not started, no later
\* candidate is attempted and the fallback does not report exhaustion.
C40_OpenedExternally ==
    \A r \in Runs : \A j \in 1..Len(runs[r].attempts) :
        LET source == runs[r].all[runs[r].attempts[j].idx] IN
        OtherCandidate(source) =>
            /\ runs[r].attempts[j].outcome = "external"
            /\ runs[r].attempts[j].tid = 0
            /\ j = Len(runs[r].attempts)
            /\ runs[r].pc = "done"
            /\ opened = <<source.url>>
            /\ ~isPlaying
            /\ playerUrl = NoUrl
            /\ playError # MsgAllFailed
            /\ ~showSourcePicker

C40_Witness ==
    \E r \in Runs :
        /\ runs[r].pc = "done"
        /\ Len(runs[r].all) = 3
        /\ Len(runs[r].attempts) = 2
        /\ runs[r].attempts[1].outcome = "failed"
        /\ runs[r].all[2].url = EmbedUrl
        /\ runs[r].attempts[2].outcome = "external"
        /\ opened = <<EmbedUrl>>

====
